---- MODULE Spec2Model ----
(***************************************************************************)
(* Well-group control tree of opm/core/wells/WellsGroup.cpp: the groups'   *)
(* and wells' control state, and the operations that check constraints     *)
(* (conditionsMet), hand targets down the tree (applyProdGroupControl,     *)
(* applyInjGroupControl), shut wells and pick the worst offending well;    *)
(* and the Carter-Tracy aquifer (AquiferCarterTracy): its connections to   *)
(* the grid, its step protocol and what it assembles into the linear       *)
(* system; and the multisegment well evaluator (MultisegmentWellEval): its *)
(* convergence report, residual measure and segment pressure equations.    *)
(*                                                                         *)
(* Rates and targets are C++ doubles; they are modelled as exact rationals *)
(* <<numerator, denominator>> with a positive denominator, in lowest       *)
(* terms.                                                                  *)
(***************************************************************************)
EXTENDS Integers, Sequences, FiniteSets, TLC

VARIABLES cfg, prodMode, injMode, wells, indiv, shouldUpdate, last, steps, aq,
          ms

vars ==
    <<cfg, prodMode, injMode, wells, indiv, shouldUpdate, last, steps, aq, ms>>

(***************************************************************************)
(* Bounds of the exploration.                                              *)
(***************************************************************************)
\* number of calls made on the tree in one behaviour
MaxSteps == 2
MaxApplySteps == 3

(***************************************************************************)
(* double arithmetic, as exact rationals                                   *)
(***************************************************************************)
Abs(x) == IF x < 0 THEN -x ELSE x

RECURSIVE GCD(_, _)
GCD(a, b) == IF b = 0 THEN a ELSE GCD(b, a % b)

\* a denominator 0 is what a division by zero gives: <<0, 0>> is NaN,
\* <<1, 0>> and <<-1, 0>> are the infinities
NaN == <<0, 0>>

RatFinite(n, d, g) ==
    IF n >= 0 THEN <<n \div g, d \div g>> ELSE <<-((-n) \div g), d \div g>>

Rat(n, d) ==
    IF d = 0 THEN <<(IF n > 0 THEN 1 ELSE IF n < 0 THEN -1 ELSE 0), 0>>
    ELSE RatFinite(n, d, GCD(Abs(n), d))

RInt(n) == <<n, 1>>
RZero == RInt(0)
\* the sum of two infinities is that infinity, or NaN when their signs differ
RAdd(a, b) ==
    IF a[2] = 0 /\ b[2] = 0 THEN (IF a[1] = b[1] THEN a ELSE NaN)
    ELSE Rat(a[1] * b[2] + b[1] * a[2], a[2] * b[2])
RNeg(a) == <<-a[1], a[2]>>
RSub(a, b) == RAdd(a, RNeg(b))
RMul(a, b) == Rat(a[1] * b[1], a[2] * b[2])
\* a / b; x / 0 is an infinity for x # 0 and NaN for x = 0
RDiv(a, b) ==
    IF b[1] >= 0 THEN Rat(a[1] * b[2], a[2] * b[1])
                ELSE Rat(-(a[1] * b[2]), a[2] * (-b[1]))
RAbs(a) == <<Abs(a[1]), a[2]>>
RLess(a, b) == a[1] * b[2] < b[1] * a[2]
RMax(a, b) == IF RLess(a, b) THEN b ELSE a
\* a >= b as doubles compare: false when either is NaN
RAtLeast(a, b) == a # NaN /\ b # NaN /\ ~RLess(a, b)

(***************************************************************************)
(* The tree.  G0 is the root group; G1 is a group below it.                *)
(***************************************************************************)
Groups == {"G0", "G1"}
Wells == {"W1", "W2", "W3"}
Nodes == Groups \cup Wells

children ==
    [g \in Groups |-> IF g = "G0" THEN <<"G1", "W3">> ELSE <<"W1", "W2">>]

parent ==
    [n \in Nodes |-> IF n = "G0" THEN "none"
                     ELSE IF n \in {"G1", "W3"} THEN "G0" ELSE "G1"]

IsWell(n) == n \in Wells

RECURSIVE WellsOf(_)
\* the leaves below node n, in depth-first order
WellsOf(n) ==
    IF IsWell(n) THEN <<n>>
    ELSE LET RECURSIVE Cat(_)
             Cat(i) == IF i > Len(children[n]) THEN <<>>
                       ELSE WellsOf(children[n][i]) \o Cat(i + 1)
         IN  Cat(1)

SeqSet(s) == {s[i] : i \in 1..Len(s)}

(***************************************************************************)
(* Phases, control modes, control types                                    *)
(***************************************************************************)
Aqua == 1
Liquid == 2
Vapour == 3
NumPhases == 3
Phases == 1..NumPhases

ProdRateModes == <<"ORAT", "WRAT", "GRAT", "LRAT", "RESV">>
InjRateModes == <<"RATE", "RESV">>

ZeroVec == <<0, 0, 0>>
VecAdd(a, b) == [p \in Phases |-> a[p] + b[p]]
VecSum(a) == a[1] + a[2] + a[3]

\* WellPhasesSummed: reservoir/surface injection/production rates by phase
ZeroSummed == [ri |-> ZeroVec, si |-> ZeroVec, rp |-> ZeroVec, sp |-> ZeroVec]

SummedAdd(a, b) ==
    [ri |-> VecAdd(a.ri, b.ri), si |-> VecAdd(a.si, b.si),
     rp |-> VecAdd(a.rp, b.rp), sp |-> VecAdd(a.sp, b.sp)]

\* rateByMode for a production mode; "error" stands for the throw
ProdRateByMode(res, surf, mode) ==
    CASE mode = "ORAT" -> surf[Liquid]
      [] mode = "WRAT" -> surf[Aqua]
      [] mode = "GRAT" -> surf[Vapour]
      [] mode = "LRAT" -> surf[Liquid] + surf[Aqua]
      [] mode = "RESV" -> VecSum(res)
      [] OTHER -> "error"

\* rateByMode for an injection mode
InjRateByMode(res, surf, mode) ==
    CASE mode = "RATE" -> VecSum(surf)
      [] mode = "RESV" -> VecSum(res)
      [] OTHER -> "error"

(***************************************************************************)
(* The state the operations work on, as one record:                        *)
(*   prodMode, injMode : prodSpec().control_mode_, injSpec().control_mode_ *)
(*                       of each group                                     *)
(*   wells             : per well its WellControls (ctrls, current, open)  *)
(*                       and group_control_index_ (gci)                    *)
(*   indiv             : individual_control_ of each node                  *)
(*   shouldUpdate      : should_update_well_targets_ of each node          *)
(* Control indices are zero-based as in the code; -1 is "none".            *)
(***************************************************************************)
State ==
    [prodMode |-> prodMode, injMode |-> injMode, wells |-> wells, indiv |-> indiv,
     shouldUpdate |-> shouldUpdate]

Ctrl(type, target, alq, distr) ==
    [type |-> type, target |-> target, alq |-> alq, distr |-> distr]

NumCtrls(w) == Len(w.ctrls)
CtrlAt(w, i) == w.ctrls[i + 1]

\* well_controls / wells C interface
append_well_controls(w, c) == [w EXCEPT !.ctrls = Append(@, c)]
well_controls_iset(w, i, c) == [w EXCEPT !.ctrls[i + 1] = c]
set_current_control(w, i) == [w EXCEPT !.current = i]
well_controls_stop_well(w) == [w EXCEPT !.open = FALSE]
well_controls_open_well(w) == [w EXCEPT !.open = TRUE]

isProducer(w) == cfg.wtype[w] = "PRODUCER"
isInjector(w) == cfg.wtype[w] = "INJECTOR"
efficicencyFactor(n) == cfg.eff[n]

\* getTarget(mode) of a group; -1 is "unset"
ProdTarget(g, mode) == cfg.ptarget[g][mode]
InjTarget(g, mode) == cfg.itarget[g][mode]

Ok(S) == [S |-> S, err |-> FALSE]
Thrown(S) == [S |-> S, err |-> TRUE]

(***************************************************************************)
(* Guide rates                                                             *)
(***************************************************************************)
WellNode_productionGuideRate(S, w, only_group) ==
    IF ~only_group \/ ~S.indiv[w] THEN cfg.pguide[w] ELSE 0

WellNode_injectionGuideRate(S, w, only_group) ==
    IF ~only_group \/ ~S.indiv[w] THEN cfg.iguide[w] ELSE 0

RECURSIVE productionGuideRate(_, _, _)
productionGuideRate(S, n, only_group) ==
    IF IsWell(n) THEN WellNode_productionGuideRate(S, n, only_group)
    ELSE LET RECURSIVE Sum(_)
             Sum(i) ==
                 IF i > Len(children[n]) THEN 0
                 ELSE LET c == children[n][i]
                      IN  (IF only_group
                           THEN (IF ~S.indiv[c]
                                 THEN productionGuideRate(S, c, only_group)
                                 ELSE 0)
                           ELSE productionGuideRate(S, c, only_group))
                          + Sum(i + 1)
         IN  Sum(1)

RECURSIVE injectionGuideRate(_, _, _)
injectionGuideRate(S, n, only_group) ==
    IF IsWell(n) THEN WellNode_injectionGuideRate(S, n, only_group)
    ELSE LET RECURSIVE Sum(_)
             Sum(i) ==
                 IF i > Len(children[n]) THEN 0
                 ELSE injectionGuideRate(S, children[n][i], only_group) + Sum(i + 1)
         IN  Sum(1)

(***************************************************************************)
(* Leaf wells: installing a group control, shutting                        *)
(***************************************************************************)
\* a distribution in which LRAT counts the oil phase only
ProdDistr_lratOilOnly(mode) ==
    CASE mode \in {"ORAT", "LRAT"} -> [p \in Phases |-> IF p = Liquid THEN 1 ELSE 0]
      [] mode = "WRAT" -> [p \in Phases |-> IF p = Aqua THEN 1 ELSE 0]
      [] mode = "GRAT" -> [p \in Phases |-> IF p = Vapour THEN 1 ELSE 0]
      [] mode = "RESV" -> [p \in Phases |-> 1]

ProdDistr(mode) ==
    CASE mode = "ORAT" -> [p \in Phases |-> IF p = Liquid THEN 1 ELSE 0]
      [] mode = "WRAT" -> [p \in Phases |-> IF p = Aqua THEN 1 ELSE 0]
      [] mode = "GRAT" -> [p \in Phases |-> IF p = Vapour THEN 1 ELSE 0]
      [] mode = "LRAT" -> [p \in Phases |-> IF p \in {Liquid, Aqua} THEN 1 ELSE 0]
      [] mode = "RESV" -> [p \in Phases |-> 1]

ProdWct(mode) == IF mode = "RESV" THEN "RESERVOIR_RATE" ELSE "SURFACE_RATE"

\* an install that appends a new control every time
WellNode_applyProdGroupControl_alwaysAppends(S, w, control_mode, target, only_group) ==
    IF ~isProducer(w) THEN Ok(S)
    ELSE IF only_group /\ S.indiv[w] THEN Ok(S)
    ELSE IF control_mode \notin SeqSet(ProdRateModes) THEN Thrown(S)
    ELSE
      LET ntarget == RDiv(RNeg(target), efficicencyFactor(w))
          c == Ctrl(ProdWct(control_mode), ntarget, "invalid_alq", ProdDistr(control_mode))
          a == append_well_controls(S.wells[w], c)
          w1 == [a EXCEPT !.gci = NumCtrls(a) - 1]
      IN  Ok([S EXCEPT !.wells[w] = set_current_control(w1, w1.gci)])

WellNode_applyProdGroupControl(S, w, control_mode, target, only_group) ==
    IF ~isProducer(w) THEN Ok(S)
    ELSE IF only_group /\ S.indiv[w] THEN Ok(S)
    ELSE IF control_mode \notin SeqSet(ProdRateModes) THEN Thrown(S)
    ELSE
      LET ntarget == RDiv(RNeg(target), efficicencyFactor(w))
          c == Ctrl(ProdWct(control_mode), ntarget, "invalid_alq", ProdDistr(control_mode))
          wr == S.wells[w]
          w1 == IF wr.gci < 0
                THEN LET a == append_well_controls(wr, c)
                     IN  [a EXCEPT !.gci = NumCtrls(a) - 1]
                ELSE well_controls_iset(wr, wr.gci, c)
          w2 == set_current_control(w1, w1.gci)
      IN  Ok([S EXCEPT !.wells[w] = w2])

InjWct(mode) == IF mode = "RATE" THEN "SURFACE_RATE" ELSE "RESERVOIR_RATE"

WellNode_applyInjGroupControl(S, w, control_mode, target, only_group) ==
    IF ~isInjector(w) THEN Ok(S)
    ELSE IF only_group /\ S.indiv[w] THEN Ok(S)
    ELSE IF control_mode \notin SeqSet(InjRateModes) THEN Thrown(S)
    ELSE
      LET effective_target == RDiv(target, efficicencyFactor(w))
          c == Ctrl(InjWct(control_mode), effective_target, "invalid_alq",
                    [p \in Phases |-> 1])
          wr == S.wells[w]
          w1 == IF wr.gci < 0
                THEN LET a == append_well_controls(wr, c)
                     IN  [a EXCEPT !.gci = NumCtrls(a) - 1]
                ELSE well_controls_iset(wr, wr.gci, c)
          w2 == set_current_control(w1, w1.gci)
      IN  Ok([S EXCEPT !.wells[w] = w2, !.indiv[w] = FALSE])

\* a shutWell that stops the well whatever its configuration
WellNode_shutWell_alwaysStops(S, w) ==
    [S EXCEPT !.wells[w] = well_controls_stop_well(S.wells[w])]

WellNode_shutWell(S, w) ==
    LET wr == S.wells[w]
    IN  IF cfg.shut_well[w]
        THEN [S EXCEPT !.wells[w] = well_controls_stop_well(wr)]
        ELSE
          LET distr == [p \in Phases |-> 1]
              w1 == IF wr.gci < 0
                    THEN LET a == append_well_controls(
                                      wr, Ctrl("SURFACE_RATE", RZero, "invalid_alq", distr))
                         IN  [a EXCEPT !.gci = NumCtrls(a) - 1]
                    ELSE well_controls_iset(
                             wr, wr.gci, Ctrl("SURFACE_RATE", RZero, "zero", distr))
          IN  [S EXCEPT !.wells[w] = well_controls_open_well(w1)]

(***************************************************************************)
(* Groups: handing a target down the tree                                  *)
(***************************************************************************)
RECURSIVE applyProdGroupControl(_, _, _, _, _)
RECURSIVE applyInjGroupControl(_, _, _, _, _)

\* a hand-down that does not stop at a group whose mode is NONE
WellsGroup_applyProdGroupControl_ignoresNone(S, g, control_mode, target, only_group) ==
    IF ~only_group \/ S.prodMode[g] = "FLD"
    THEN
      LET my_guide_rate == productionGuideRate(S, g, FALSE)
          RECURSIVE Loop(_, _)
          Loop(i, St) ==
              IF i > Len(children[g]) THEN Ok(St)
              ELSE
                LET c == children[g][i]
                    child_target ==
                        RDiv(RMul(RDiv(target, efficicencyFactor(g)),
                                  RInt(productionGuideRate(St, c, only_group))),
                             RInt(my_guide_rate))
                    r == applyProdGroupControl(St, c, control_mode, child_target, FALSE)
                IN  IF r.err THEN r ELSE Loop(i + 1, r.S)
      IN  IF my_guide_rate = 0 THEN Ok(S)
          ELSE LET r == Loop(1, S)
               IN  IF r.err THEN r ELSE Ok([r.S EXCEPT !.prodMode[g] = "FLD"])
    ELSE Ok(S)

WellsGroup_applyProdGroupControl(S, g, control_mode, target, only_group) ==
    IF S.prodMode[g] = "NONE" THEN Ok(S)
    ELSE IF ~only_group \/ S.prodMode[g] = "FLD"
    THEN
      LET my_guide_rate == productionGuideRate(S, g, FALSE)
          RECURSIVE Loop(_, _)
          Loop(i, St) ==
              IF i > Len(children[g]) THEN Ok(St)
              ELSE
                LET c == children[g][i]
                    child_target ==
                        RDiv(RMul(RDiv(target, efficicencyFactor(g)),
                                  RInt(productionGuideRate(St, c, only_group))),
                             RInt(my_guide_rate))
                    r == applyProdGroupControl(St, c, control_mode, child_target, FALSE)
                IN  IF r.err THEN r ELSE Loop(i + 1, r.S)
      IN  IF my_guide_rate = 0 THEN Ok(S)
          ELSE LET r == Loop(1, S)
               IN  IF r.err THEN r ELSE Ok([r.S EXCEPT !.prodMode[g] = "FLD"])
    ELSE Ok(S)

\* a hand-down that forgets the group's efficiency factor
WellsGroup_applyInjGroupControl_ignoresEfficiency(S, g, control_mode, target, only_group) ==
    IF S.injMode[g] = "NONE" THEN Ok(S)
    ELSE IF ~only_group \/ S.injMode[g] = "FLD"
    THEN
      LET my_guide_rate == injectionGuideRate(S, g, only_group)
          RECURSIVE Loop(_, _)
          Loop(i, St) ==
              IF i > Len(children[g]) THEN Ok(St)
              ELSE
                LET c == children[g][i]
                    child_target ==
                        RDiv(RMul(target, RInt(injectionGuideRate(St, c, only_group))),
                             RInt(my_guide_rate))
                    r == applyInjGroupControl(St, c, control_mode, child_target, FALSE)
                IN  IF r.err THEN r ELSE Loop(i + 1, r.S)
      IN  IF my_guide_rate = 0 THEN Ok(S)
          ELSE LET r == Loop(1, S)
               IN  IF r.err THEN r ELSE Ok([r.S EXCEPT !.injMode[g] = "FLD"])
    ELSE Ok(S)

WellsGroup_applyInjGroupControl(S, g, control_mode, target, only_group) ==
    IF S.injMode[g] = "NONE" THEN Ok(S)
    ELSE IF ~only_group \/ S.injMode[g] = "FLD"
    THEN
      LET my_guide_rate == injectionGuideRate(S, g, only_group)
          RECURSIVE Loop(_, _)
          Loop(i, St) ==
              IF i > Len(children[g]) THEN Ok(St)
              ELSE
                LET c == children[g][i]
                    child_target ==
                        RDiv(RMul(RDiv(target, efficicencyFactor(g)),
                                  RInt(injectionGuideRate(St, c, only_group))),
                             RInt(my_guide_rate))
                    r == applyInjGroupControl(St, c, control_mode, child_target, FALSE)
                IN  IF r.err THEN r ELSE Loop(i + 1, r.S)
      IN  IF my_guide_rate = 0 THEN Ok(S)
          ELSE LET r == Loop(1, S)
               IN  IF r.err THEN r ELSE Ok([r.S EXCEPT !.injMode[g] = "FLD"])
    ELSE Ok(S)

\* virtual dispatch on the node's class
applyProdGroupControl(S, n, control_mode, target, only_group) ==
    IF IsWell(n) THEN WellNode_applyProdGroupControl(S, n, control_mode, target, only_group)
    ELSE WellsGroup_applyProdGroupControl(S, n, control_mode, target, only_group)

applyInjGroupControl(S, n, control_mode, target, only_group) ==
    IF IsWell(n) THEN WellNode_applyInjGroupControl(S, n, control_mode, target, only_group)
    ELSE WellsGroup_applyInjGroupControl(S, n, control_mode, target, only_group)

(***************************************************************************)
(* conditionsMet.  R is the caller's well data: R.bhp[w], and the          *)
(* reservoir and surface rates by phase R.res[w], R.surf[w].  The result   *)
(* holds the returned bool (ret), whether the call threw (err), the state  *)
(* it leaves and the caller's summed_phases as it leaves it.               *)
(***************************************************************************)
RelTolDenominator == 1000000

Dot(distr, rates) ==
    distr[1] * rates[1] + distr[2] * rates[2] + distr[3] * rates[3]

\* is control c (BHP or a rate) of well w violated by the rates R?
\* a test of RESERVOIR_RATE that allows no margin
CtrlViolated_noMargin(w, c, R) ==
    CASE c.type = "BHP" ->
             IF isProducer(w) THEN RLess(RInt(R.bhp[w]), c.target)
                              ELSE RLess(c.target, RInt(R.bhp[w]))
      [] c.type = "RESERVOIR_RATE" ->
             RLess(RAbs(c.target), RAbs(RInt(Dot(c.distr, R.res[w]))))
      [] c.type = "SURFACE_RATE" ->
             RLess(RAbs(c.target), RAbs(RInt(Dot(c.distr, R.surf[w]))))

CtrlViolated(w, c, R) ==
    CASE c.type = "BHP" ->
             IF isProducer(w) THEN RLess(RInt(R.bhp[w]), c.target)
                              ELSE RLess(c.target, RInt(R.bhp[w]))
      [] c.type = "RESERVOIR_RATE" ->
             LET my_rate == RInt(Dot(c.distr, R.res[w]))
             IN  RLess(RMul(RMax(RAbs(my_rate), RAbs(c.target)),
                            <<1, RelTolDenominator>>),
                       RSub(RAbs(my_rate), RAbs(c.target)))
      [] c.type = "SURFACE_RATE" ->
             RLess(RAbs(c.target), RAbs(RInt(Dot(c.distr, R.surf[w]))))

WellNode_conditionsMet(S, w, R, summed_phases) ==
    LET reported ==
            IF isInjector(w)
            THEN [summed_phases EXCEPT !.ri = R.res[w], !.si = R.surf[w]]
            ELSE [summed_phases EXCEPT !.rp = R.res[w], !.sp = R.surf[w]]
        wr == S.wells[w]
        RECURSIVE Check(_)
        Check(ctrl_index) ==
            IF ctrl_index >= NumCtrls(wr)
            THEN [ret |-> TRUE, err |-> FALSE, S |-> S, summed |-> reported]
            ELSE IF ctrl_index = wr.current \/ ctrl_index = wr.gci
            THEN Check(ctrl_index + 1)
            ELSE
              LET c == CtrlAt(wr, ctrl_index)
              IN  IF c.type = "THP"
                  THEN [ret |-> FALSE, err |-> TRUE, S |-> S, summed |-> reported]
                  ELSE IF CtrlViolated(w, c, R)
                  THEN [ret |-> FALSE, err |-> FALSE,
                        S |-> [S EXCEPT !.wells[w] = set_current_control(wr, ctrl_index)],
                        summed |-> reported]
                  ELSE Check(ctrl_index + 1)
    IN  Check(0)

RECURSIVE getWorstOffending(_, _, _)
\* <<well, rate>>, for a mode rateByMode has a rate for
getWorstOffending(n, R, mode) ==
    IF IsWell(n) THEN <<n, ProdRateByMode(R.res[n], R.surf[n], mode)>>
    ELSE
      LET RECURSIVE Scan(_, _)
          Scan(i, max) ==
              IF i > Len(children[n]) THEN max
              ELSE LET child_max == getWorstOffending(children[n][i], R, mode)
                   IN  IF i = 1 \/ max[2] < child_max[2]
                       THEN Scan(i + 1, child_max)
                       ELSE Scan(i + 1, max)
      IN  Scan(1, <<"none", 0>>)

\* the first mode of the list, not the active one, whose target is set and exceeded
FirstViolatedInj(g, active, sum) ==
    LET RECURSIVE Scan(_)
        Scan(i) ==
            IF i > Len(InjRateModes) THEN "none"
            ELSE LET mode == InjRateModes[i]
                     target_rate == InjTarget(g, mode)
                 IN  IF active # mode /\ target_rate >= 0
                        /\ InjRateByMode(sum.ri, sum.si, mode) > target_rate
                     THEN mode ELSE Scan(i + 1)
    IN  Scan(1)

\* a scan that forgets the first mode of the list (ORAT)
FirstViolatedProd_skipsORAT(g, active, sum) ==
    LET RECURSIVE Scan(_)
        Scan(i) ==
            IF i > Len(ProdRateModes) THEN "none"
            ELSE LET mode == ProdRateModes[i]
                     target_rate == ProdTarget(g, mode)
                 IN  IF active # mode /\ target_rate >= 0
                        /\ Abs(ProdRateByMode(sum.rp, sum.sp, mode)) > target_rate
                     THEN mode ELSE Scan(i + 1)
    IN  Scan(2)

FirstViolatedProd(g, active, sum) ==
    LET RECURSIVE Scan(_)
        Scan(i) ==
            IF i > Len(ProdRateModes) THEN "none"
            ELSE LET mode == ProdRateModes[i]
                     target_rate == ProdTarget(g, mode)
                 IN  IF active # mode /\ target_rate >= 0
                        /\ Abs(ProdRateByMode(sum.rp, sum.sp, mode)) > target_rate
                     THEN mode ELSE Scan(i + 1)
    IN  Scan(1)

SetInjMode(a, g, mode) == IF a.err THEN a ELSE Ok([a.S EXCEPT !.injMode[g] = mode])

\* a response that hands the target down but forgets to switch the mode
InjectionViolated_keepsMode(S, g, mode) ==
    WellsGroup_applyInjGroupControl(S, g, mode, RInt(InjTarget(g, mode)), FALSE)

\* the response to an exceeded injection target: hand the target down, then
\* make the mode the active one
InjectionViolated(S, g, mode) ==
    SetInjMode(WellsGroup_applyInjGroupControl(S, g, mode, RInt(InjTarget(g, mode)), FALSE),
               g, mode)

\* a response in which the procedure NONE_P hands the target down like RATE
ProductionViolated_noneReapplies(S, g, mode, R) ==
    CASE cfg.procedure[g] = "WELL" ->
             Ok(WellNode_shutWell(S, getWorstOffending(g, R, mode)[1]))
      [] cfg.procedure[g] \in {"RATE", "NONE_P"} ->
             WellsGroup_applyProdGroupControl(S, g, mode, RInt(ProdTarget(g, mode)), FALSE)

\* a response in which the procedure RATE does nothing
ProductionViolated_rateDoesNothing(S, g, mode, R) ==
    CASE cfg.procedure[g] = "WELL" ->
             Ok(WellNode_shutWell(S, getWorstOffending(g, R, mode)[1]))
      [] cfg.procedure[g] = "RATE" -> Ok(S)
      [] cfg.procedure[g] = "NONE_P" -> Ok(S)

\* the response to an exceeded production target, by the group's procedure
ProductionViolated(S, g, mode, R) ==
    CASE cfg.procedure[g] = "WELL" ->
             Ok(WellNode_shutWell(S, getWorstOffending(g, R, mode)[1]))
      [] cfg.procedure[g] = "RATE" ->
             WellsGroup_applyProdGroupControl(S, g, mode, RInt(ProdTarget(g, mode)), FALSE)
      [] cfg.procedure[g] = "NONE_P" -> Ok(S)

RECURSIVE conditionsMet(_, _, _, _)
RECURSIVE ChildrenMet(_, _, _, _, _)

\* a loop that goes on to the next child after a child that is not met
ChildAnswer_goesOn(g, R, i, r, child_phases_summed) ==
    IF r.err
    THEN [ret |-> FALSE, err |-> r.err, S |-> r.S, summed |-> child_phases_summed]
    ELSE ChildrenMet(g, R, i + 1, r.S, SummedAdd(child_phases_summed, r.summed))

\* what child i's answer r does to the loop over the children: the loop stops
\* at the first child that is not met
ChildAnswer(g, R, i, r, child_phases_summed) ==
    IF r.err \/ ~r.ret
    THEN [ret |-> FALSE, err |-> r.err, S |-> r.S, summed |-> child_phases_summed]
    ELSE ChildrenMet(g, R, i + 1, r.S, SummedAdd(child_phases_summed, r.summed))

\* the loop over the children, from child i on
ChildrenMet(g, R, i, S, child_phases_summed) ==
    IF i > Len(children[g])
    THEN [ret |-> TRUE, err |-> FALSE, S |-> S, summed |-> child_phases_summed]
    ELSE ChildAnswer(g, R, i, conditionsMet(S, children[g][i], R, ZeroSummed),
                     child_phases_summed)

\* "return false" after a response a; the caller's summed_phases is untouched
NotMet(a, summed_phases) ==
    [ret |-> FALSE, err |-> a.err, S |-> a.S, summed |-> summed_phases]

\* the group's own targets, once all children are met (k is the loop's result,
\* imode and pmode the first violated injection and production mode)
OwnTargets(k, g, R, summed_phases, imode, pmode) ==
    IF imode # "none" THEN NotMet(InjectionViolated(k.S, g, imode), summed_phases)
    ELSE IF pmode # "none" THEN NotMet(ProductionViolated(k.S, g, pmode, R), summed_phases)
    ELSE [ret |-> TRUE, err |-> FALSE, S |-> k.S,
          summed |-> SummedAdd(summed_phases, k.summed)]

AfterChildren(k, g, R, summed_phases) ==
    IF k.err \/ ~k.ret THEN NotMet(k, summed_phases)
    ELSE OwnTargets(k, g, R, summed_phases,
                    FirstViolatedInj(g, k.S.injMode[g], k.summed),
                    FirstViolatedProd(g, k.S.prodMode[g], k.summed))

WellsGroup_conditionsMet(S, g, R, summed_phases) ==
    AfterChildren(ChildrenMet(g, R, 1, S, ZeroSummed), g, R, summed_phases)

conditionsMet(S, n, R, summed_phases) ==
    IF IsWell(n) THEN WellNode_conditionsMet(S, n, R, summed_phases)
    ELSE WellsGroup_conditionsMet(S, n, R, summed_phases)

(***************************************************************************)
(* Explicit reinjection (REIN) and voidage replacement (VREP)              *)
(***************************************************************************)
RECURSIVE getTotalProductionFlow(_, _, _)
\* phase_flows[w][phase] summed over the producers below node n
getTotalProductionFlow(n, phase_flows, phase) ==
    IF IsWell(n) THEN (IF isInjector(n) THEN 0 ELSE phase_flows[n][phase])
    ELSE LET RECURSIVE Sum(_)
             Sum(i) == IF i > Len(children[n]) THEN 0
                       ELSE getTotalProductionFlow(children[n][i], phase_flows, phase)
                            + Sum(i + 1)
         IN  Sum(1)

\* the build is made without DIRTY_WELLCTRL_HACK
DIRTY_WELLCTRL_HACK == FALSE

\* the phase a REIN group reinjects, by its injector type
ReinjectedPhase(g) ==
    CASE cfg.injector_type[g] = "WATER" -> Aqua
      [] cfg.injector_type[g] = "GAS" -> Vapour
      [] cfg.injector_type[g] = "OIL" -> Liquid

RECURSIVE ReinjectLoop(_, _, _, _, _, _, _)
ReinjectNext(r, g, i, mode, total_reinjected, fraction, my_guide_rate) ==
    IF r.err THEN r
    ELSE ReinjectLoop(r.S, g, i + 1, mode, total_reinjected, fraction, my_guide_rate)

\* the loop over the children, from child i on: each child is given
\* (children_guide_rate / my_guide_rate) * total_reinjected * fraction
ReinjectLoop(S, g, i, mode, total_reinjected, fraction, my_guide_rate) ==
    IF i > Len(children[g]) THEN Ok(S)
    ELSE ReinjectNext(
             applyInjGroupControl(
                 S, children[g][i], mode,
                 RMul(RMul(RDiv(RInt(injectionGuideRate(S, children[g][i], TRUE)),
                                RInt(my_guide_rate)),
                           total_reinjected),
                      fraction),
                 TRUE),
             g, i, mode, total_reinjected, fraction, my_guide_rate)

WellsGroup_applyExplicitReinjectionControls(S, g, R) ==
    IF S.injMode[g] = "REIN"
    THEN ReinjectLoop(S, g, 1, (IF DIRTY_WELLCTRL_HACK THEN "RESV" ELSE "RATE"),
                      RInt(-getTotalProductionFlow(g, R.surf, ReinjectedPhase(g))),
                      cfg.reinjection_fraction_target[g],
                      injectionGuideRate(S, g, TRUE))
    ELSE IF S.injMode[g] = "VREP"
    THEN ReinjectLoop(S, g, 1, "RESV",
                      RInt(-(getTotalProductionFlow(g, R.res, Aqua)
                             + getTotalProductionFlow(g, R.res, Liquid)
                             + getTotalProductionFlow(g, R.res, Vapour))),
                      cfg.voidage_replacment_fraction[g],
                      injectionGuideRate(S, g, TRUE))
    ELSE Ok(S)

\* nothing is done at well level
applyExplicitReinjectionControls(S, n, R) ==
    IF IsWell(n) THEN Ok(S) ELSE WellsGroup_applyExplicitReinjectionControls(S, n, R)

(***************************************************************************)
(* updateWellProductionTargets                                             *)
(***************************************************************************)
\* WellNode::getProductionRate; "error" stands for the throw
WellNode_getProductionRate(w, well_rates, prod_mode) ==
    CASE prod_mode = "LRAT" -> getTotalProductionFlow(w, well_rates, Liquid)
                               + getTotalProductionFlow(w, well_rates, Aqua)
      [] prod_mode = "ORAT" -> getTotalProductionFlow(w, well_rates, Liquid)
      [] prod_mode = "WRAT" -> getTotalProductionFlow(w, well_rates, Aqua)
      [] prod_mode = "GRAT" -> getTotalProductionFlow(w, well_rates, Vapour)
      [] OTHER -> "error"

\* a child the loops of updateWellProductionTargets look at: a producer (a
\* group is neither producer nor injector)
ProducerChild(c) == IsWell(c) /\ isProducer(c)

\* an update that forgets the producers under individual control
RateIndividualControl_none(S, g, i, well_rates, prod_mode) == RZero

RECURSIVE RateIndividualControl(_, _, _, _, _)
\* the rates contributed by the producers under individual control, from
\* child i on
RateIndividualControl(S, g, i, well_rates, prod_mode) ==
    IF i > Len(children[g]) THEN RZero
    ELSE IF S.indiv[children[g][i]] /\ ProducerChild(children[g][i])
    THEN RAdd(RAbs(RMul(RInt(WellNode_getProductionRate(children[g][i], well_rates,
                                                        prod_mode)),
                        efficicencyFactor(children[g][i]))),
              RateIndividualControl(S, g, i + 1, well_rates, prod_mode))
    ELSE RateIndividualControl(S, g, i + 1, well_rates, prod_mode)

\* getProductionRate throws for the mode, for some producer under individual
\* control
IndividualRateThrows(S, g, prod_mode) ==
    /\ prod_mode \notin {"LRAT", "ORAT", "WRAT", "GRAT"}
    /\ \E i \in 1..Len(children[g]) :
           S.indiv[children[g][i]] /\ ProducerChild(children[g][i])

RECURSIVE UpdateLoop(_, _, _, _, _, _)
UpdateNext(r, g, i, prod_mode, rate_for_group_control, my_guide_rate) ==
    IF r.err THEN r
    ELSE UpdateLoop([r.S EXCEPT !.shouldUpdate[children[g][i]] = FALSE], g, i + 1,
                    prod_mode, rate_for_group_control, my_guide_rate)

\* the loop that hands the shares to the producers under group control
UpdateLoop(S, g, i, prod_mode, rate_for_group_control, my_guide_rate) ==
    IF i > Len(children[g]) THEN Ok(S)
    ELSE IF ~S.indiv[children[g][i]] /\ ProducerChild(children[g][i])
    THEN UpdateNext(
             applyProdGroupControl(
                 S, children[g][i], prod_mode,
                 RMul(RDiv(RInt(productionGuideRate(S, children[g][i], TRUE)),
                           RInt(my_guide_rate)),
                      rate_for_group_control),
                 TRUE),
             g, i, prod_mode, rate_for_group_control, my_guide_rate)
    ELSE UpdateLoop(S, g, i + 1, prod_mode, rate_for_group_control, my_guide_rate)

\* the part after the switch on the mode; target_rate is not yet divided by
\* the group's efficiency factor
UpdateWithTarget(S, g, well_rates, prod_mode, target_rate) ==
    IF IndividualRateThrows(S, g, prod_mode) THEN Thrown(S)
    ELSE UpdateLoop(S, g, 1, prod_mode,
                    RSub(RDiv(target_rate, efficicencyFactor(g)),
                         RateIndividualControl(S, g, 1, well_rates, prod_mode)),
                    productionGuideRate(S, g, TRUE))

\* the FLD case: mode and target come from the parent; getTarget throws for a
\* mode without a target, and the root has no parent to ask
UpdateFromParent(S, g, well_rates, parent_node) ==
    IF parent_node = "none" THEN Thrown(S)
    ELSE IF S.prodMode[parent_node] \notin SeqSet(ProdRateModes) THEN Thrown(S)
    ELSE UpdateWithTarget(S, g, well_rates, S.prodMode[parent_node],
                          RDiv(RInt(ProdTarget(parent_node, S.prodMode[parent_node])),
                               efficicencyFactor(parent_node)))

WellsGroup_updateWellProductionTargets(S, g, well_rates) ==
    IF S.prodMode[g] = "FLD" THEN UpdateFromParent(S, g, well_rates, parent[g])
    ELSE IF S.prodMode[g] \in {"LRAT", "ORAT", "GRAT", "WRAT"}
    THEN UpdateWithTarget(S, g, well_rates, S.prodMode[g],
                          RInt(ProdTarget(g, S.prodMode[g])))
    ELSE Thrown(S)

(***************************************************************************)
(* applyProdGroupControls, applyInjGroupControls: the groups' own targets  *)
(* handed to their children                                                *)
(***************************************************************************)
RECURSIVE applyProdGroupControls(_, _)
RECURSIVE ProdControlsLoop(_, _, _, _, _)
RECURSIVE ProdControlsDescend(_, _, _)

ProdControlsNext(r, g, i, prod_mode, my_guide_rate) ==
    IF r.err THEN r ELSE ProdControlsLoop(r.S, g, i + 1, prod_mode, my_guide_rate)

\* each child is given (children_guide_rate / my_guide_rate) * getTarget(prod_mode)
ProdControlsLoop(S, g, i, prod_mode, my_guide_rate) ==
    IF i > Len(children[g]) THEN Ok(S)
    ELSE ProdControlsNext(
             applyProdGroupControl(
                 S, children[g][i], prod_mode,
                 RMul(RDiv(RInt(productionGuideRate(S, children[g][i], FALSE)),
                           RInt(my_guide_rate)),
                      RInt(ProdTarget(g, prod_mode))),
                 FALSE),
             g, i, prod_mode, my_guide_rate)

ProdControlsSplit(S, g, prod_mode, my_guide_rate) ==
    IF my_guide_rate = 0 THEN Thrown(S)
    ELSE ProdControlsLoop(S, g, 1, prod_mode, my_guide_rate)

ProdControlsDescendNext(r, g, i) ==
    IF r.err THEN r ELSE ProdControlsDescend(r.S, g, i + 1)

\* modes FLD and NONE: the children apply their own controls
ProdControlsDescend(S, g, i) ==
    IF i > Len(children[g]) THEN Ok(S)
    ELSE ProdControlsDescendNext(applyProdGroupControls(S, children[g][i]), g, i)

WellsGroup_applyProdGroupControls(S, g) ==
    IF S.prodMode[g] \in {"ORAT", "WRAT", "LRAT", "RESV"}
    THEN ProdControlsSplit(S, g, S.prodMode[g], productionGuideRate(S, g, FALSE))
    ELSE IF S.prodMode[g] \in {"FLD", "NONE"} THEN ProdControlsDescend(S, g, 1)
    ELSE Thrown(S)

\* nothing is done at well level
applyProdGroupControls(S, n) ==
    IF IsWell(n) THEN Ok(S) ELSE WellsGroup_applyProdGroupControls(S, n)

RECURSIVE applyInjGroupControls(_, _)
RECURSIVE InjControlsLoop(_, _, _, _, _)
RECURSIVE InjControlsDescend(_, _, _)

InjControlsNext(r, g, i, inj_mode, my_guide_rate) ==
    IF r.err THEN r ELSE InjControlsLoop(r.S, g, i + 1, inj_mode, my_guide_rate)

\* each child is given
\* (children_guide_rate / my_guide_rate) * getTarget(inj_mode) / efficicencyFactor()
InjControlsLoop(S, g, i, inj_mode, my_guide_rate) ==
    IF i > Len(children[g]) THEN Ok(S)
    ELSE InjControlsNext(
             applyInjGroupControl(
                 S, children[g][i], inj_mode,
                 RDiv(RMul(RDiv(RInt(injectionGuideRate(S, children[g][i], FALSE)),
                                RInt(my_guide_rate)),
                           RInt(InjTarget(g, inj_mode))),
                      efficicencyFactor(g)),
                 TRUE),
             g, i, inj_mode, my_guide_rate)

InjControlsDescendNext(r, g, i) ==
    IF r.err THEN r ELSE InjControlsDescend(r.S, g, i + 1)

InjControlsDescend(S, g, i) ==
    IF i > Len(children[g]) THEN Ok(S)
    ELSE InjControlsDescendNext(applyInjGroupControls(S, children[g][i]), g, i)

WellsGroup_applyInjGroupControls(S, g) ==
    IF S.injMode[g] \in {"RATE", "RESV"}
    THEN InjControlsLoop(S, g, 1, S.injMode[g], injectionGuideRate(S, g, FALSE))
    ELSE IF S.injMode[g] \in {"VREP", "REIN"} THEN Ok(S)
    ELSE IF S.injMode[g] \in {"FLD", "NONE"} THEN InjControlsDescend(S, g, 1)
    ELSE Thrown(S)

applyInjGroupControls(S, n) ==
    IF IsWell(n) THEN Ok(S) ELSE WellsGroup_applyInjGroupControls(S, n)

(***************************************************************************)
(* The Carter-Tracy aquifer (AquiferCarterTracy).  An Eval is a value with *)
(* its derivatives with respect to the numEq primary variables.            *)
(***************************************************************************)
numEq == 3
PrimaryVars == 0 .. (numEq - 1)
\* equation rows of one cell; the water component's row is waterCompIdx
Equations == 0 .. (numEq - 1)
waterCompIdx == 1

ZeroDerivatives == [k \in PrimaryVars |-> RZero]
EvalConst(x) == [v |-> x, d |-> ZeroDerivatives]
EvalMinusScalar(e, x) == [v |-> RSub(e.v, x), d |-> e.d]
EvalTimesScalar(e, x) ==
    [v |-> RMul(e.v, x), d |-> [k \in PrimaryVars |-> RMul(e.d[k], x)]]
ScalarMinusEval(x, e) ==
    [v |-> RSub(x, e.v), d |-> [k \in PrimaryVars |-> RNeg(e.d[k])]]
EvalPlus(e, f) ==
    [v |-> RAdd(e.v, f.v), d |-> [k \in PrimaryVars |-> RAdd(e.d[k], f.d[k])]]

RECURSIVE SumRationals(_)
SumRationals(s) ==
    IF s = <<>> THEN RZero ELSE RAdd(Head(s), SumRationals(Tail(s)))

RECURSIVE SumEvals(_)
SumEvals(s) ==
    IF s = <<>> THEN EvalConst(RZero) ELSE EvalPlus(Head(s), SumEvals(Tail(s)))

\* the cells of the grid
GridCells == {0, 1, 2}

\* faceTag -> FaceDir::DirEnum
FaceDirOfTag(faceTag) ==
    CASE faceTag = 0 -> "XMinus"
      [] faceTag = 1 -> "XPlus"
      [] faceTag = 2 -> "YMinus"
      [] faceTag = 3 -> "YPlus"
      [] faceTag = 4 -> "ZMinus"
      [] faceTag = 5 -> "ZPlus"

\* the faces of the connection's cell that lie in the connection's direction,
\* in the order cell2Faces lists them
MatchingFaces(ugrid, c) ==
    SelectSeq(ugrid.cell2Faces[c.global_index],
              LAMBDA f : FaceDirOfTag(f.faceTag) = c.reservoir_face_dir)

FaceAreas(faces) == [i \in 1 .. Len(faces) |-> faces[i].faceArea]

\* faceArea_connected_.at(idx) is assigned for every matching face: the last
\* one stays
FaceAreaConnected(ugrid, c) ==
    IF MatchingFaces(ugrid, c) = <<>> THEN RZero
    ELSE MatchingFaces(ugrid, c)[Len(MatchingFaces(ugrid, c))].faceArea

\* denom_face_areas += faceArea_connected_.at(idx), once per matching face
DenomFaceAreas(ugrid, connection) ==
    SumRationals([idx \in 1 .. Len(connection) |->
                    SumRationals(FaceAreas(MatchingFaces(ugrid, connection[idx])))])

initialize_connections(ugrid, connection) ==
    [cell_idx_ |-> [idx \in 1 .. Len(connection) |-> connection[idx].global_index],
     cell_depth_ |-> [idx \in 1 .. Len(connection) |->
                        ugrid.cellCenter[connection[idx].global_index]],
     faceArea_connected_ |-> [idx \in 1 .. Len(connection) |->
                                FaceAreaConnected(ugrid, connection[idx])],
     denom_face_areas |-> DenomFaceAreas(ugrid, connection),
     alphai_ |-> [idx \in 1 .. Len(connection) |->
                    RDiv(FaceAreaConnected(ugrid, connection[idx]),
                         DenomFaceAreas(ugrid, connection))]]

\* polynomial_fit(X, y, coeff, 1, true): the least-squares line through the
\* table, coeff[0] + coeff[1] * x (coeff_.at(0) is Coeff0, coeff_.at(1) Coeff1)
SumProducts(X, y) == SumRationals([i \in 1 .. Len(X) |-> RMul(X[i], y[i])])

FitSlope(X, y) ==
    RDiv(RSub(RMul(RInt(Len(X)), SumProducts(X, y)),
              RMul(SumRationals(X), SumRationals(y))),
         RSub(RMul(RInt(Len(X)), SumProducts(X, X)),
              RMul(SumRationals(X), SumRationals(X))))

polynomial_fit(X, y) ==
    [Coeff0 |-> RDiv(RSub(SumRationals(y), RMul(FitSlope(X, y), SumRationals(X))),
                     RInt(Len(X))),
     Coeff1 |-> FitSlope(X, y)]

area_fraction(o, i) == o.alphai_[i]

\* calculate_reservoir_equilibrium: the equilibrium pressures of the cells,
\* each times its area fraction, averaged over the connections
EquilibriumPressure(o, params, gravity, sim, idx) ==
    RMul(RSub(sim.pressure[o.cell_idx_[idx]].v,
              RMul(RMul(sim.density[o.cell_idx_[idx]].v, gravity),
                   RSub(o.cell_depth_[idx], params.d0))),
         area_fraction(o, idx))

calculate_reservoir_equilibrium(o, params, gravity, sim) ==
    RDiv(SumRationals([idx \in 1 .. Len(o.cell_idx_) |->
                         EquilibriumPressure(o, params, gravity, sim, idx)]),
         RInt(Len(o.cell_idx_)))

\* calculate_aquifer_condition: rhow_ and pa0_ (the viscosity mu_w_ comes
\* from the water PVT table of the simulator)
AquiferDensity(o, params, sim) ==
    [idx \in 1 .. Len(o.cell_idx_) |->
        IF params.p0_defaulted THEN sim.density[o.cell_idx_[idx]]
        ELSE EvalConst(RZero)]

AquiferPressure(o, params, gravity, sim) ==
    IF params.p0_defaulted THEN calculate_reservoir_equilibrium(o, params, gravity, sim)
    ELSE params.p0

\* the object the constructor leaves (init_quantities); dt_ is not
\* initialised and never read
init_quantities(params, connection, gravity, ugrid, sim, o) ==
    [params |-> params,
     gravity_ |-> gravity,
     cell_idx_ |-> o.cell_idx_,
     cell_depth_ |-> o.cell_depth_,
     faceArea_connected_ |-> o.faceArea_connected_,
     alphai_ |-> o.alphai_,
     W_flux_ |-> EvalConst(RZero),
     rhow_ |-> AquiferDensity(o, params, sim),
     pa0_ |-> AquiferPressure(o, params, gravity, sim),
     mu_w_ |-> sim.viscosity,
     pressure_previous_ |-> [idx \in 1 .. Len(connection) |-> EvalConst(RZero)],
     pressure_current_ |-> [idx \in 1 .. Len(connection) |-> EvalConst(RZero)],
     Qai_ |-> [idx \in 1 .. Len(connection) |-> EvalConst(RZero)],
     coeff_ |-> polynomial_fit(params.td, params.pi),
     dt_ |-> RZero]

AquiferCarterTracy(params, connection, gravity, ugrid, sim) ==
    init_quantities(params, connection, gravity, ugrid, sim,
                    initialize_connections(ugrid, connection))

time_constant(o) ==
    RDiv(RMul(RMul(RMul(RMul(o.mu_w_, o.params.phi_aq), o.params.C_t), o.params.r_o),
              o.params.r_o),
         RMul(o.params.k_a, o.params.c1))

aquifer_influx_constant(o) ==
    RMul(RMul(RMul(RMul(RMul(RMul(o.params.c2, o.params.h), o.params.theta),
                        o.params.phi_aq), o.params.C_t), o.params.r_o), o.params.r_o)

dpai(o, idx) ==
    RSub(RAdd(o.pa0_,
              RMul(RMul(o.rhow_[idx].v, o.gravity_),
                   RSub(o.cell_depth_[idx], o.params.d0))),
         o.pressure_previous_[idx].v)

\* calculate_a_b_constants
DimensionlessTime(o, t) == RDiv(t, time_constant(o))
PItdprime(o) == o.coeff_.Coeff1
PItd(o, timer) ==
    RAdd(o.coeff_.Coeff0,
         RMul(o.coeff_.Coeff1,
              DimensionlessTime(o, RAdd(timer.currentStepLength,
                                        timer.simulationTimeElapsed))))
\* PItd - td * PItdprime
InfluenceDenominator(o, timer) ==
    RSub(PItd(o, timer),
         RMul(DimensionlessTime(o, timer.simulationTimeElapsed), PItdprime(o)))

calculate_a(o, idx, timer) ==
    RDiv(RMul(RDiv(RInt(1), time_constant(o)),
              RSub(RMul(aquifer_influx_constant(o), dpai(o, idx)),
                   RMul(o.W_flux_.v, PItdprime(o)))),
         InfluenceDenominator(o, timer))

calculate_b(o, idx, timer) ==
    RDiv(aquifer_influx_constant(o),
         RMul(time_constant(o), InfluenceDenominator(o, timer)))

calculate_inflow_rate(o, idx, timer) ==
    EvalTimesScalar(
        ScalarMinusEval(calculate_a(o, idx, timer),
                        EvalTimesScalar(
                            EvalMinusScalar(o.pressure_current_[idx],
                                            o.pressure_previous_[idx].v),
                            calculate_b(o, idx, timer))),
        area_fraction(o, idx))

\* get_current_Pressure_cell, get_current_density_cell
get_current_Pressure_cell(o, sim) ==
    [idx \in 1 .. Len(o.cell_idx_) |-> sim.pressure[o.cell_idx_[idx]]]
get_current_density_cell(o, sim) ==
    [idx \in 1 .. Len(o.cell_idx_) |-> sim.density[o.cell_idx_[idx]]]

\* the linear system of the simulator: residual rows and Jacobian blocks
SubtractInflow_toFirstRow(lin, c, qinflow) ==
    [resid |-> [lin.resid EXCEPT ![c][0] = RSub(@, qinflow.v)],
     jac |-> [lin.jac EXCEPT ![c][c][0] =
                 [pvIdx \in PrimaryVars |-> RSub(@[pvIdx], qinflow.d[pvIdx])]]]

SubtractInflow(lin, c, qinflow) ==
    [resid |-> [lin.resid EXCEPT ![c][waterCompIdx] = RSub(@, qinflow.v)],
     jac |-> [lin.jac EXCEPT ![c][c][waterCompIdx] =
                 [pvIdx \in PrimaryVars |-> RSub(@[pvIdx], qinflow.d[pvIdx])]]]

RECURSIVE AssembleRows(_, _, _)
AssembleRows(lin, o, idx) ==
    IF idx > Len(o.cell_idx_) THEN lin
    ELSE AssembleRows(SubtractInflow(lin, o.cell_idx_[idx], o.Qai_[idx]), o, idx + 1)

\* the object after the loop of assembleAquiferEq, before Qai_ is set
AssembleRead(o, sim, timer) ==
    [o EXCEPT !.dt_ = timer.currentStepLength,
              !.pressure_current_ = get_current_Pressure_cell(o, sim),
              !.rhow_ = get_current_density_cell(o, sim)]

AssembleRates_addsToFlux(o, timer) ==
    [o EXCEPT !.Qai_ = [idx \in 1 .. Len(o.cell_idx_) |->
                          calculate_inflow_rate(o, idx, timer)],
              !.W_flux_ = EvalPlus(@, calculate_inflow_rate(o, 1, timer))]

AssembleRates(o, timer) ==
    [o EXCEPT !.Qai_ = [idx \in 1 .. Len(o.cell_idx_) |->
                          calculate_inflow_rate(o, idx, timer)]]

assembleAquiferEq(o, lin, sim, timer) ==
    [obj |-> AssembleRates(AssembleRead(o, sim, timer), timer),
     lin |-> AssembleRows(lin, AssembleRates(AssembleRead(o, sim, timer), timer), 1)]

before_time_step(o, sim) ==
    [o EXCEPT !.pressure_previous_ = get_current_Pressure_cell(o, sim)]

after_time_step_subtracts(o, timer) ==
    [o EXCEPT !.W_flux_ =
        EvalPlus(@, EvalTimesScalar(SumEvals(o.Qai_),
                                    RNeg(timer.currentStepLength)))]

after_time_step(o, timer) ==
    [o EXCEPT !.W_flux_ =
        EvalPlus(@, EvalTimesScalar(SumEvals(o.Qai_), timer.currentStepLength))]

\* no aquifer has been constructed
NoAquiferObject == [cell_idx_ |-> <<>>]
ZeroSystem ==
    [resid |-> [c \in GridCells |-> [e \in Equations |-> RZero]],
     jac |-> [c \in GridCells |-> [c2 \in GridCells |->
                [e \in Equations |-> [k \in PrimaryVars |-> RZero]]]]]
NoTimer == [simulationTimeElapsed |-> RZero, currentStepLength |-> RZero]
NoSim ==
    [pressure |-> [c \in GridCells |-> EvalConst(RZero)],
     density |-> [c \in GridCells |-> EvalConst(RZero)],
     viscosity |-> RZero]
NoAquiferCall ==
    [op |-> "none", denom_face_areas |-> RZero, calls |-> 0, sim |-> NoSim,
     timer |-> NoTimer]
\* pure_influx records that every assembly so far found a positive potential
\* drop at every connection
NoAquifer ==
    [obj |-> NoAquiferObject, call |-> [op |-> "none", calls |-> 0],
     pure_influx |-> TRUE]

(***************************************************************************)
(* The multisegment well evaluator (MultisegmentWellEval): the well's      *)
(* residual, one row of numWellEq equations per segment, the convergence   *)
(* report made from it, the residual measure, and the pressure equation of *)
(* a segment.  Segment 0 is the top segment.                               *)
(***************************************************************************)
\* a two-phase well: two mass equations and the pressure equation
numComponents == 2
numWellEq == numComponents + 1
WQTotal == 0
SPres == numWellEq - 1
numberOfSegments == 3

Segments == 0 .. numberOfSegments - 1
WellEquations == 0 .. numWellEq - 1
Components == 0 .. numComponents - 1

isnan(x) == x = NaN
isinf(x) == x[2] = 0 /\ x[1] # 0
\* a > b as doubles compare: false when either is NaN
RGreater(a, b) == RLess(b, a)

abs_residual(residual) ==
    [seg \in Segments |-> [eq_idx \in WellEquations |-> RAbs(residual[seg][eq_idx])]]

\* the residual the loops take from segment seg for equation eq_idx
ScaledResidual(abs_res, B_avg, seg, eq_idx) ==
    IF eq_idx < numComponents THEN RMul(B_avg[eq_idx], abs_res[seg][eq_idx])
    ELSE abs_res[seg][eq_idx]

\* the top segment's last equation is the control equation
IsExamined(seg, eq_idx) == eq_idx < numComponents \/ seg > 0

LargerResidual(maximum, examined, r) ==
    IF examined /\ RGreater(r, maximum) THEN r ELSE maximum

RECURSIVE maximum_residual(_, _, _, _, _)
maximum_residual(abs_res, B_avg, eq_idx, seg, maximum) ==
    IF seg = numberOfSegments THEN maximum
    ELSE maximum_residual(abs_res, B_avg, eq_idx, seg + 1,
             LargerResidual(maximum, IsExamined(seg, eq_idx),
                            ScaledResidual(abs_res, B_avg, seg, eq_idx)))

WellFailure(type, severity, phase) ==
    [type |-> type, severity |-> severity, phase |-> phase]

MassBalanceFailure(flux_residual, eq_idx, tol, relax_tolerance) ==
    IF isnan(flux_residual)
    THEN <<WellFailure("MassBalance", "NotANumber", eq_idx)>>
    ELSE IF RGreater(flux_residual, tol.max_residual_allowed)
    THEN <<WellFailure("MassBalance", "TooLarge", eq_idx)>>
    ELSE IF ~relax_tolerance /\ RGreater(flux_residual, tol.tolerance_wells)
    THEN <<WellFailure("MassBalance", "Normal", eq_idx)>>
    ELSE IF RGreater(flux_residual, tol.relaxed_inner_tolerance_flow_ms_well)
    THEN <<WellFailure("MassBalance", "Normal", eq_idx)>>
    ELSE <<>>

dummy_component == -1

PressureFailure_tooLargeAboveMaximum(pressure_residual, tol, relax_tolerance) ==
    IF isnan(pressure_residual)
    THEN <<WellFailure("Pressure", "NotANumber", dummy_component)>>
    ELSE IF RGreater(pressure_residual, tol.max_residual_allowed)
    THEN <<WellFailure("Pressure", "TooLarge", dummy_component)>>
    ELSE IF ~relax_tolerance
            /\ RGreater(pressure_residual, tol.tolerance_pressure_ms_wells)
    THEN <<WellFailure("Pressure", "Normal", dummy_component)>>
    ELSE IF RGreater(pressure_residual, tol.relaxed_inner_tolerance_pressure_ms_well)
    THEN <<WellFailure("Pressure", "Normal", dummy_component)>>
    ELSE <<>>

PressureFailure(pressure_residual, tol, relax_tolerance) ==
    IF isnan(pressure_residual)
    THEN <<WellFailure("Pressure", "NotANumber", dummy_component)>>
    ELSE IF isinf(pressure_residual)
    THEN <<WellFailure("Pressure", "TooLarge", dummy_component)>>
    ELSE IF ~relax_tolerance
            /\ RGreater(pressure_residual, tol.tolerance_pressure_ms_wells)
    THEN <<WellFailure("Pressure", "Normal", dummy_component)>>
    ELSE IF RGreater(pressure_residual, tol.relaxed_inner_tolerance_pressure_ms_well)
    THEN <<WellFailure("Pressure", "Normal", dummy_component)>>
    ELSE <<>>

EquationFailure(maximum, eq_idx, tol, relax_tolerance) ==
    IF eq_idx < numComponents
    THEN MassBalanceFailure(maximum, eq_idx, tol, relax_tolerance)
    ELSE PressureFailure(maximum, tol, relax_tolerance)

RECURSIVE EquationFailures(_, _, _, _, _)
EquationFailures(abs_res, B_avg, tol, relax_tolerance, eq_idx) ==
    IF eq_idx = numWellEq THEN <<>>
    ELSE EquationFailure(maximum_residual(abs_res, B_avg, eq_idx, 0, RZero),
                         eq_idx, tol, relax_tolerance)
         \o EquationFailures(abs_res, B_avg, tol, relax_tolerance, eq_idx + 1)

\* the tolerance of the control equation under each control mode, in the
\* order the caller lists them: BHP, THP, the rates, group control
ControlEqTolerance(cmode, tol) ==
    IF cmode \in {"BHP", "THP"} THEN tol.tolerance_pressure_ms_wells
    ELSE tol.tolerance_wells

ControlFailureType(cmode) ==
    IF cmode = "BHP" THEN "ControlBHP"
    ELSE IF cmode = "THP" THEN "ControlTHP" ELSE "ControlRate"

checkConvergenceControlEq(cmode, tol, control_residual, report) ==
    IF isnan(control_residual)
    THEN Append(report, WellFailure(ControlFailureType(cmode), "NotANumber",
                                    dummy_component))
    ELSE IF RGreater(control_residual, tol.max_residual_allowed)
    THEN Append(report, WellFailure(ControlFailureType(cmode), "TooLarge",
                                    dummy_component))
    ELSE IF RGreater(control_residual, ControlEqTolerance(cmode, tol))
    THEN Append(report, WellFailure(ControlFailureType(cmode), "Normal",
                                    dummy_component))
    ELSE report

\* the report, as the sequence of the failures set in it
getWellConvergence(residual, cmode, B_avg, tol, relax_tolerance) ==
    checkConvergenceControlEq(
        cmode, tol, RAbs(residual[0][SPres]),
        EquationFailures(abs_residual(residual), B_avg, tol, relax_tolerance, 0))

\* the value the loop takes from segment seg for equation eq_idx
FiniteResidual_topSegmentToo(residual, B_avg, seg, eq_idx) ==
    IF eq_idx < numComponents
    THEN RMul(RAbs(residual[seg][eq_idx]), B_avg[eq_idx])
    ELSE RAbs(residual[seg][eq_idx])

FiniteResidual(residual, B_avg, seg, eq_idx) ==
    IF eq_idx < numComponents
    THEN RMul(RAbs(residual[seg][eq_idx]), B_avg[eq_idx])
    ELSE IF seg > 0 THEN RAbs(residual[seg][eq_idx]) ELSE RZero

RaiseResidual(residuals, eq_idx, r) ==
    IF RGreater(r, residuals[eq_idx]) THEN [residuals EXCEPT ![eq_idx] = r]
    ELSE residuals

ControlResidual(residual, residuals) ==
    IF isnan(RAbs(residual[0][numWellEq - 1])) \/ isinf(RAbs(residual[0][numWellEq - 1]))
    THEN [finite |-> FALSE, residuals |-> residuals]
    ELSE [finite |-> TRUE,
          residuals |-> [residuals EXCEPT ![numWellEq] = RAbs(residual[0][numWellEq - 1])]]

\* the loops over segments and equations, at segment k \div numWellEq and
\* equation k % numWellEq; they end at the first value that is not finite
RECURSIVE FiniteResiduals(_, _, _, _)
FiniteResiduals(residual, B_avg, k, residuals) ==
    IF k = numberOfSegments * numWellEq THEN ControlResidual(residual, residuals)
    ELSE IF isnan(FiniteResidual(residual, B_avg, k \div numWellEq, k % numWellEq))
            \/ isinf(FiniteResidual(residual, B_avg, k \div numWellEq, k % numWellEq))
    THEN [finite |-> FALSE, residuals |-> residuals]
    ELSE FiniteResiduals(residual, B_avg, k + 1,
             RaiseResidual(residuals, k % numWellEq,
                           FiniteResidual(residual, B_avg, k \div numWellEq,
                                          k % numWellEq)))

getFiniteWellResiduals(residual, B_avg) ==
    FiniteResiduals(residual, B_avg, 0, [e \in 0 .. numWellEq |-> RZero])

InjectorCModes == {"THP", "BHP", "RATE", "RESV", "GRUP"}
ProducerCModes == {"THP", "BHP", "ORAT", "WRAT", "GRAT", "LRAT", "RESV", "CRAT", "GRUP"}

\* a control mode none of the cases names raises an error
getControlTolerance(wellType, cmode, tolerance_wells, tolerance_pressure_ms_wells) ==
    IF wellType = "INJECTOR" /\ cmode \notin InjectorCModes
    THEN [thrown |-> TRUE, v |-> RZero]
    ELSE IF wellType = "PRODUCER" /\ cmode \notin ProducerCModes
    THEN [thrown |-> TRUE, v |-> RZero]
    ELSE IF cmode = "THP" THEN [thrown |-> FALSE, v |-> tolerance_pressure_ms_wells]
    ELSE [thrown |-> FALSE, v |-> tolerance_wells]

\* sum and count after the loop over the mass equations, from eq_idx on
RECURSIVE RateMeasure_toLastEquation(_, _, _, _)
RateMeasure_toLastEquation(residuals, rate_tolerance, eq_idx, m) ==
    IF eq_idx >= numWellEq THEN m
    ELSE RateMeasure_toLastEquation(residuals, rate_tolerance, eq_idx + 1,
             IF RGreater(residuals[eq_idx], rate_tolerance)
             THEN [sum |-> RAdd(m.sum, RDiv(residuals[eq_idx], rate_tolerance)),
                   count |-> m.count + 1]
             ELSE m)

RECURSIVE RateMeasure(_, _, _, _)
RateMeasure(residuals, rate_tolerance, eq_idx, m) ==
    IF eq_idx >= numWellEq - 1 THEN m
    ELSE RateMeasure(residuals, rate_tolerance, eq_idx + 1,
             IF RGreater(residuals[eq_idx], rate_tolerance)
             THEN [sum |-> RAdd(m.sum, RDiv(residuals[eq_idx], rate_tolerance)),
                   count |-> m.count + 1]
             ELSE m)

AddMeasure(m, r, tolerance) ==
    IF RGreater(r, tolerance)
    THEN [sum |-> RAdd(m.sum, RDiv(r, tolerance)), count |-> m.count + 1]
    ELSE m

MeasureResult(m) == [thrown |-> FALSE, asserted |-> m.count # 0, sum |-> m.sum]

\* asserted is what assert(count != 0) finds; a build without assertions
\* returns the sum whatever it is
getResidualMeasureValue(wellType, cmode, residuals, tolerance_wells, tolerance_pressure_ms_wells) ==
    IF getControlTolerance(wellType, cmode, tolerance_wells,
                           tolerance_pressure_ms_wells).thrown
    THEN [thrown |-> TRUE, asserted |-> TRUE, sum |-> RZero]
    ELSE MeasureResult(
             AddMeasure(
                 AddMeasure(RateMeasure(residuals, tolerance_wells, 0,
                                        [sum |-> RZero, count |-> 0]),
                            residuals[SPres], tolerance_pressure_ms_wells),
                 residuals[SPres + 1],
                 getControlTolerance(wellType, cmode, tolerance_wells,
                                     tolerance_pressure_ms_wells).v))

(***************************************************************************)
(* The pressure equation of a segment below the top.  A row of the linear  *)
(* system is held as the equation it encodes: "pressure" with the value of *)
(* P(seg) - drops - P(outlet) and the acceleration loss assembled into it, *)
(* or "trivial" with the value of WQTotal(seg).                            *)
(***************************************************************************)
outletSegment == [seg \in Segments |-> IF seg = 0 THEN 0 ELSE seg - 1]
inlets(seg) == {s \in Segments : s # seg /\ outletSegment[s] = seg}

\* what the primary variables and the segments' fluid state give
getSegmentPressure == [seg \in Segments |-> RInt(100 - 10 * seg)]
getHydroPressureLoss == [seg \in Segments |-> RInt(3 + seg)]
getFrictionPressureLoss == [seg \in Segments |-> Rat(1 + seg, 2)]
pressureDropSpiralICD == [seg \in Segments |-> RInt(11 + seg)]
pressureDropAutoICD == [seg \in Segments |-> RInt(21 + seg)]
pressureDropValve == [seg \in Segments |-> RInt(31 + seg)]
mass_rates_ == [seg \in Segments |-> IF seg = 2 THEN RInt(-2) ELSE RInt(5)]
velocityHead == [seg \in Segments |-> Rat(seg + 1, 4)]
WQTotalValue == [seg \in Segments |-> Rat(seg, 8)]

NoRow == [eq |-> "none", value |-> RZero, loss |-> RZero]

RECURSIVE InletVelocityHeads(_)
InletVelocityHeads(segs) ==
    IF segs = {} THEN RZero
    ELSE RAdd(velocityHead[CHOOSE s \in segs : TRUE],
              InletVelocityHeads(segs \ {CHOOSE s \in segs : TRUE}))

accelerationPressureLoss(seg) ==
    RMul(IF RLess(mass_rates_[seg], RZero) THEN RInt(1) ELSE RInt(-1),
         RSub(velocityHead[seg], InletVelocityHeads(inlets(seg))))

handleAccelerationPressureLoss(seg, w) ==
    [ws |-> [w.ws EXCEPT !.pressure_drop_accel[seg] = accelerationPressureLoss(seg)],
     lin |-> [w.lin EXCEPT ![seg].loss = accelerationPressureLoss(seg)]]

DefaultPressureEquation(seg, frictional) ==
    RSub(RSub(getSegmentPressure[seg], getHydroPressureLoss[seg]),
         IF frictional THEN getFrictionPressureLoss[seg] ELSE RZero)

DefaultPressureRow(seg, w, frictional) ==
    [ws |-> [w.ws EXCEPT
               !.pressure_drop_hydrostatic[seg] = getHydroPressureLoss[seg],
               !.pressure_drop_friction[seg] =
                   IF frictional THEN getFrictionPressureLoss[seg] ELSE @],
     lin |-> [w.lin EXCEPT ![seg] =
               [eq |-> "pressure",
                value |-> RSub(DefaultPressureEquation(seg, frictional),
                               getSegmentPressure[outletSegment[seg]]),
                loss |-> RZero]]]

assembleDefaultPressureEq(seg, w, well) ==
    IF well.accelerationalPressureLossConsidered
    THEN handleAccelerationPressureLoss(
             seg, DefaultPressureRow(seg, w, well.frictionalPressureLossConsidered))
    ELSE DefaultPressureRow(seg, w, well.frictionalPressureLossConsidered)

icd_pressure_drop(seg, segmentType) ==
    IF segmentType = "SICD" THEN pressureDropSpiralICD[seg]
    ELSE IF segmentType = "AICD" THEN pressureDropAutoICD[seg]
    ELSE pressureDropValve[seg]

assembleICDPressureEq_shutValveAsOpen(seg, w, segment) ==
    [ws |-> [w.ws EXCEPT !.pressure_drop_friction[seg] =
                             icd_pressure_drop(seg, segment.segmentType)],
     lin |-> [w.lin EXCEPT ![seg] =
               [eq |-> "pressure",
                value |-> RSub(RSub(getSegmentPressure[seg],
                                    icd_pressure_drop(seg, segment.segmentType)),
                               getSegmentPressure[outletSegment[seg]]),
                loss |-> RZero]]]

assembleICDPressureEq(seg, w, segment) ==
    IF segment.segmentType = "VALVE" /\ segment.status = "SHUT"
    THEN [ws |-> [w.ws EXCEPT !.pressure_drop_friction[seg] = RZero],
          lin |-> [w.lin EXCEPT ![seg] =
                     [eq |-> "trivial", value |-> WQTotalValue[seg], loss |-> RZero]]]
    ELSE [ws |-> [w.ws EXCEPT !.pressure_drop_friction[seg] =
                                  icd_pressure_drop(seg, segment.segmentType)],
          lin |-> [w.lin EXCEPT ![seg] =
                     [eq |-> "pressure",
                      value |-> RSub(RSub(getSegmentPressure[seg],
                                          icd_pressure_drop(seg, segment.segmentType)),
                                     getSegmentPressure[outletSegment[seg]]),
                      loss |-> RZero]]]

assemblePressureEq(seg, w, segment, well) ==
    IF segment.segmentType \in {"SICD", "AICD", "VALVE"}
    THEN assembleICDPressureEq(seg, w, segment)
    ELSE assembleDefaultPressureEq(seg, w, well)

ZeroDrops ==
    [pressure_drop_hydrostatic |-> [seg \in Segments |-> RZero],
     pressure_drop_friction |-> [seg \in Segments |-> RZero],
     pressure_drop_accel |-> [seg \in Segments |-> RZero]]

NoRows == [seg \in Segments |-> NoRow]

NoSegmentedWell ==
    [call |-> [op |-> "none", calls |-> 0], out |-> <<>>,
     ws |-> ZeroDrops, lin |-> NoRows,
     pre |-> [ws |-> ZeroDrops, lin |-> NoRows]]

(***************************************************************************)
(* Configurations: what the schedule fixes when the tree is built.         *)
(***************************************************************************)
WellVec(a, b, c) == [w \in Wells |-> IF w = "W1" THEN a ELSE IF w = "W2" THEN b ELSE c]

TypeChoices == {WellVec("PRODUCER", "PRODUCER", "PRODUCER"),
                WellVec("INJECTOR", "INJECTOR", "PRODUCER")}
\* the wells' guide rates g, with the efficiency factor 1 / d of G1
GuideChoices == {[g |-> WellVec(1, 1, 1), d |-> 1],
                 [g |-> WellVec(1, 1, 1), d |-> 2],
                 [g |-> WellVec(0, 0, 1), d |-> 2]}
\* G1's production and injection control mode and the procedure of the groups
ModeChoices == {[p |-> "NONE", i |-> "NONE", proc |-> "RATE"],
                [p |-> "NONE", i |-> "NONE", proc |-> "WELL"],
                [p |-> "LRAT", i |-> "RESV", proc |-> "RATE"],
                [p |-> "LRAT", i |-> "RESV", proc |-> "WELL"],
                [p |-> "LRAT", i |-> "RESV", proc |-> "NONE_P"],
                [p |-> "FLD", i |-> "FLD", proc |-> "RATE"],
                [p |-> "FLD", i |-> "FLD", proc |-> "WELL"],
                [p |-> "ORAT", i |-> "RATE", proc |-> "RATE"]}

UnsetProd == [m \in SeqSet(ProdRateModes) |-> -1]
UnsetInj == [m \in SeqSet(InjRateModes) |-> -1]

MkCfg(types, guides, d, modes) ==
    [wtype |-> types,
     \* createWellWellsGroup: a well's efficiency factor is 1 (W3's has been
     \* set to 1/2 with setEfficiencyFactor), and the guide rate of the kind
     \* it is not is 0
     eff |-> [n \in Nodes |-> IF n = "G1" THEN <<1, d>>
                              ELSE IF n \in {"G0", "W3"} THEN <<1, 2>> ELSE RInt(1)],
     pguide |-> [w \in Wells |-> IF types[w] = "PRODUCER" THEN guides[w] ELSE 0],
     iguide |-> [w \in Wells |-> IF types[w] = "INJECTOR" THEN guides[w] ELSE 0],
     ptarget |-> [g \in Groups |->
                    IF g = "G1"
                    THEN [UnsetProd EXCEPT !["ORAT"] = 100, !["LRAT"] = 150]
                    ELSE [UnsetProd EXCEPT !["ORAT"] = 120, !["RESV"] = 300]],
     itarget |-> [g \in Groups |->
                    IF g = "G1"
                    THEN [UnsetInj EXCEPT !["RATE"] = 100, !["RESV"] = 120]
                    ELSE [UnsetInj EXCEPT !["RATE"] = 150, !["RESV"] = 200]],
     procedure |-> [g \in Groups |-> modes.proc],
     shut_well |-> WellVec(FALSE, TRUE, FALSE),
     injector_type |-> [g \in Groups |-> IF g = "G1" THEN "WATER" ELSE "OIL"],
     reinjection_fraction_target |-> [g \in Groups |-> IF g = "G1" THEN RInt(1) ELSE <<1, 2>>],
     voidage_replacment_fraction |-> [g \in Groups |-> IF g = "G1" THEN RInt(1) ELSE <<1, 2>>],
     prodMode0 |-> [g \in Groups |-> IF g = "G1" THEN modes.p ELSE "LRAT"],
     injMode0 |-> [g \in Groups |-> IF g = "G1" THEN modes.i ELSE "RESV"]]

Configs ==
    {MkCfg(t, gr.g, gr.d, m) :
        t \in TypeChoices, gr \in GuideChoices, m \in ModeChoices}

OilDistr == [p \in Phases |-> IF p = Liquid THEN 1 ELSE 0]
AllDistr == [p \in Phases |-> 1]

\* the controls a well has from the schedule, before any group control
InitialWell(type) ==
    IF type = "PRODUCER"
    THEN [ctrls |-> <<Ctrl("BHP", RInt(200), "invalid_alq", ZeroVec),
                      Ctrl("SURFACE_RATE", RInt(-60), "invalid_alq", OilDistr)>>,
          current |-> 1, gci |-> -1, open |-> TRUE]
    ELSE [ctrls |-> <<Ctrl("BHP", RInt(400), "invalid_alq", ZeroVec),
                      Ctrl("SURFACE_RATE", RInt(90), "invalid_alq", AllDistr),
                      Ctrl("RESERVOIR_RATE", RInt(100), "invalid_alq", AllDistr)>>,
          current |-> 1, gci |-> -1, open |-> TRUE]

\* W1 comes stopped from the schedule, the other wells open
InitiallyOpen(w) == w # "W1"

(***************************************************************************)
(* Inputs of the calls                                                     *)
(***************************************************************************)
\* per well: water and oil surface rates; the reservoir rates are the surface
\* rates plus extra in the gas phase
MkRates(bhp, wat, oil, extra) ==
    [bhp |-> bhp,
     surf |-> [w \in Wells |-> <<wat[w], oil[w], 0>>],
     res |-> [w \in Wells |-> <<wat[w], oil[w], extra[w]>>]]

NoRates == MkRates(WellVec(0, 0, 0), WellVec(0, 0, 0), WellVec(0, 0, 0), WellVec(0, 0, 0))

RateCases ==
    {MkRates(WellVec(220, 220, 220), WellVec(0, 0, 0), WellVec(80, 30, 0), WellVec(20, 0, 0)),
     MkRates(WellVec(220, 220, 220), WellVec(0, 0, 0), WellVec(-80, -30, -40), WellVec(0, 0, -10)),
     MkRates(WellVec(220, 220, 220), WellVec(0, 0, 0), WellVec(50, 50, 0), WellVec(0, 0, 0)),
     MkRates(WellVec(220, 220, 220), WellVec(0, 0, 20), WellVec(50, 50, 40), WellVec(10, 0, 0)),
     MkRates(WellVec(150, 220, 450), WellVec(0, 0, 0), WellVec(-25, -50, 0), WellVec(0, 0, 0)),
     MkRates(WellVec(220, 220, 220), WellVec(0, 60, 0), WellVec(-30, -30, -60), WellVec(0, -90, 0))}

ApplyTargets == {RInt(60)}
ApplyProdModes == {"ORAT", "RESV"}
ApplyInjModes == {"RATE", "RESV"}

(***************************************************************************)
(* The calls.  last records the latest call: its arguments, the state it   *)
(* started from (pre) and what it returned.                                *)
(***************************************************************************)
NoCall ==
    [op |-> "none", node |-> "none", mode |-> "-", target |-> RZero,
     only_group |-> FALSE, R |-> NoRates, ret |-> TRUE, err |-> FALSE,
     summedIn |-> ZeroSummed, summedOut |-> ZeroSummed, worst |-> <<"none", 0>>]

Init ==
    /\ cfg \in Configs
    /\ prodMode = cfg.prodMode0
    /\ injMode = cfg.injMode0
    /\ wells = [w \in Wells |->
                  [InitialWell(cfg.wtype[w]) EXCEPT !.open = InitiallyOpen(w)]]
    /\ indiv = [n \in Nodes |-> TRUE]
    /\ shouldUpdate = [n \in Nodes |-> FALSE]
    /\ last = [NoCall EXCEPT !.op = "init"] @@ [pre |-> State]
    /\ steps = 0
    /\ aq = NoAquifer
    /\ ms = NoSegmentedWell

Commit(S, call) ==
    /\ prodMode' = S.prodMode
    /\ injMode' = S.injMode
    /\ wells' = S.wells
    /\ indiv' = S.indiv
    /\ shouldUpdate' = S.shouldUpdate
    /\ last' = call @@ [pre |-> State]
    /\ steps' = steps + 1
    /\ UNCHANGED <<cfg, aq, ms>>

ConditionsMet(g, R) ==
    /\ LET r == conditionsMet(State, g, R, ZeroSummed)
       IN  Commit(r.S, [NoCall EXCEPT !.op = "conditionsMet", !.node = g, !.R = R,
                                      !.ret = r.ret, !.err = r.err,
                                      !.summedOut = r.summed])

ApplyProdGroupControl(g, mode, target, only_group) ==
    /\ LET r == applyProdGroupControl(State, g, mode, target, only_group)
       IN  Commit(r.S, [NoCall EXCEPT !.op = "applyProdGroupControl", !.node = g,
                                      !.mode = mode, !.target = target,
                                      !.only_group = only_group, !.err = r.err])

ApplyInjGroupControl(g, mode, target, only_group) ==
    /\ LET r == applyInjGroupControl(State, g, mode, target, only_group)
       IN  Commit(r.S, [NoCall EXCEPT !.op = "applyInjGroupControl", !.node = g,
                                      !.mode = mode, !.target = target,
                                      !.only_group = only_group, !.err = r.err])

ShutWell(w) ==
    /\ Commit(WellNode_shutWell(State, w), [NoCall EXCEPT !.op = "shutWell", !.node = w])

SetIndividualControl(n, b) ==
    /\ Commit([State EXCEPT !.indiv[n] = b],
              [NoCall EXCEPT !.op = "setIndividualControl", !.node = n, !.ret = b])

GetWorstOffending(g, mode, R) ==
    /\ Commit(State, [NoCall EXCEPT !.op = "getWorstOffending", !.node = g, !.mode = mode,
                                    !.R = R, !.worst = getWorstOffending(g, R, mode)])

\* every exploration stops after a bounded number of calls
Next ==
    \/ steps < MaxSteps
       /\ \E g \in Groups, R \in RateCases : ConditionsMet(g, R)
    \/ steps < MaxSteps
       /\ \E g \in Groups, mode \in ApplyProdModes, target \in ApplyTargets,
             only_group \in BOOLEAN : ApplyProdGroupControl(g, mode, target, only_group)
    \/ steps < MaxSteps
       /\ \E g \in Groups, mode \in ApplyInjModes, target \in ApplyTargets,
             only_group \in BOOLEAN : ApplyInjGroupControl(g, mode, target, only_group)
    \/ steps < MaxSteps
       /\ \E w \in Wells : ShutWell(w)
    \/ steps < MaxSteps
       /\ \E n \in Nodes \ {"G0"}, b \in BOOLEAN : SetIndividualControl(n, b)

Spec == Init /\ [][Next]_vars

\* the calls made on a leaf well directly
NextLeaf ==
    \/ steps < MaxSteps
       /\ \E w \in Wells, mode \in SeqSet(ProdRateModes) \cup {"GRUP"}, target \in ApplyTargets,
             only_group \in BOOLEAN : ApplyProdGroupControl(w, mode, target, only_group)
    \/ steps < MaxSteps
       /\ \E w \in Wells, mode \in ApplyInjModes \cup {"GRUP"}, target \in ApplyTargets,
             only_group \in BOOLEAN : ApplyInjGroupControl(w, mode, target, only_group)
    \/ steps < MaxSteps
       /\ \E w \in Wells : ShutWell(w)
    \/ steps < MaxSteps
       /\ \E w \in Wells, b \in BOOLEAN : SetIndividualControl(w, b)

\* the wells' operations read nothing of the groups' control modes: one choice
\* of them is explored
InitLeaf ==
    /\ Init
    /\ \E t \in TypeChoices, gr \in GuideChoices :
          cfg = MkCfg(t, gr.g, gr.d, [p |-> "NONE", i |-> "NONE", proc |-> "RATE"])

SpecLeaf == InitLeaf /\ [][NextLeaf]_vars

\* getWorstOffending is a pure query: it is explored on its own, from every
\* configuration
NextWorst ==
    /\ steps < MaxSteps
    /\ \E g \in Groups, mode \in SeqSet(ProdRateModes), R \in RateCases :
          GetWorstOffending(g, mode, R)

SpecWorst == Init /\ [][NextWorst]_vars

\* handing targets down the tree, with nodes taken off individual control
\* before; longer runs than above, of fewer calls
NextApply ==
    \/ steps < MaxApplySteps
       /\ \E g \in Groups, mode \in ApplyProdModes, target \in ApplyTargets,
             only_group \in BOOLEAN : ApplyProdGroupControl(g, mode, target, only_group)
    \/ steps < MaxApplySteps
       /\ \E g \in Groups, mode \in ApplyInjModes, target \in ApplyTargets,
             only_group \in BOOLEAN : ApplyInjGroupControl(g, mode, target, only_group)
    \/ steps < MaxApplySteps
       /\ \E n \in Nodes \ {"G0"} : SetIndividualControl(n, FALSE)

SpecApply == Init /\ [][NextApply]_vars

(***************************************************************************)
(* The controls applied once per step: configurations with the replacement *)
(* modes REIN and VREP, and the calls                                      *)
(***************************************************************************)
MaxControlSteps == 3

ControlTypeChoices == {WellVec("INJECTOR", "PRODUCER", "PRODUCER"),
                       WellVec("INJECTOR", "INJECTOR", "PRODUCER"),
                       WellVec("PRODUCER", "PRODUCER", "PRODUCER")}

ControlGuideChoices == {[g |-> WellVec(1, 1, 1), d |-> 2],
                        [g |-> WellVec(1, 3, 1), d |-> 1],
                        [g |-> WellVec(0, 0, 1), d |-> 2]}

\* production and injection control mode of G1 (p1, i1) and of G0 (p0, i0)
ControlModeChoices ==
    {[p1 |-> "ORAT", i1 |-> "VREP", p0 |-> "ORAT", i0 |-> "RESV"],
     [p1 |-> "FLD", i1 |-> "FLD", p0 |-> "ORAT", i0 |-> "VREP"],
     [p1 |-> "LRAT", i1 |-> "REIN", p0 |-> "NONE", i0 |-> "RATE"],
     [p1 |-> "GRAT", i1 |-> "RATE", p0 |-> "RESV", i0 |-> "NONE"]}

MkControlCfg(types, guides, d, modes) ==
    [MkCfg(types, guides, d, [p |-> modes.p1, i |-> modes.i1, proc |-> "RATE"])
        EXCEPT !.prodMode0["G0"] = modes.p0, !.injMode0["G0"] = modes.i0]

ControlConfigs ==
    {MkControlCfg(t, gr.g, gr.d, m) :
        t \in ControlTypeChoices, gr \in ControlGuideChoices, m \in ControlModeChoices}

ControlRateCases ==
    {MkRates(WellVec(150, 220, 450), WellVec(0, 0, 0), WellVec(-25, -50, 0), WellVec(0, 0, 0)),
     MkRates(WellVec(220, 220, 220), WellVec(0, 0, 0), WellVec(-80, -30, -40), WellVec(0, 0, -10))}

InitControls ==
    /\ cfg \in ControlConfigs
    /\ prodMode = cfg.prodMode0
    /\ injMode = cfg.injMode0
    /\ wells = [w \in Wells |->
                  [InitialWell(cfg.wtype[w]) EXCEPT !.open = InitiallyOpen(w)]]
    /\ indiv = [n \in Nodes |-> TRUE]
    /\ shouldUpdate = [n \in Nodes |-> FALSE]
    /\ last = [NoCall EXCEPT !.op = "init"] @@ [pre |-> State]
    /\ steps = 0
    /\ aq = NoAquifer
    /\ ms = NoSegmentedWell

ApplyExplicitReinjectionControls(g, R) ==
    /\ LET r == applyExplicitReinjectionControls(State, g, R)
       IN  Commit(r.S, [NoCall EXCEPT !.op = "applyExplicitReinjectionControls",
                                      !.node = g, !.R = R, !.err = r.err])

UpdateWellProductionTargets(g, R) ==
    /\ LET r == WellsGroup_updateWellProductionTargets(State, g, R.surf)
       IN  Commit(r.S, [NoCall EXCEPT !.op = "updateWellProductionTargets",
                                      !.node = g, !.R = R, !.err = r.err])

SetShouldUpdateWellTargets(n, b) ==
    /\ Commit([State EXCEPT !.shouldUpdate[n] = b],
              [NoCall EXCEPT !.op = "setShouldUpdateWellTargets", !.node = n, !.ret = b])

ApplyProdGroupControls(g) ==
    /\ LET r == applyProdGroupControls(State, g)
       IN  Commit(r.S, [NoCall EXCEPT !.op = "applyProdGroupControls", !.node = g,
                                      !.err = r.err])

ApplyInjGroupControls(g) ==
    /\ LET r == applyInjGroupControls(State, g)
       IN  Commit(r.S, [NoCall EXCEPT !.op = "applyInjGroupControls", !.node = g,
                                      !.err = r.err])

NextControls ==
    \/ steps < MaxControlSteps
       /\ \E g \in Groups : ApplyProdGroupControls(g)
    \/ steps < MaxControlSteps
       /\ \E g \in Groups : ApplyInjGroupControls(g)
    \/ steps < MaxControlSteps
       /\ \E g \in Groups, R \in ControlRateCases : ApplyExplicitReinjectionControls(g, R)
    \/ steps < MaxControlSteps
       /\ \E g \in Groups, R \in ControlRateCases : UpdateWellProductionTargets(g, R)
    \/ steps < MaxControlSteps
       /\ \E n \in Nodes : SetShouldUpdateWellTargets(n, TRUE)
    \/ steps < MaxControlSteps
       /\ \E n \in Nodes \ {"G0"} : SetIndividualControl(n, FALSE)

SpecControls == InitControls /\ [][NextControls]_vars

\* the calls that hand targets down with only_group = true, on trees in which
\* some wells have been taken off individual control; G1's injection mode is
\* i1, G0's is i0
OnlyGroupModeChoices ==
    {[p1 |-> "ORAT", i1 |-> "FLD", p0 |-> "ORAT", i0 |-> "RESV"],
     [p1 |-> "ORAT", i1 |-> "FLD", p0 |-> "ORAT", i0 |-> "VREP"],
     [p1 |-> "ORAT", i1 |-> "RATE", p0 |-> "ORAT", i0 |-> "REIN"],
     [p1 |-> "ORAT", i1 |-> "VREP", p0 |-> "ORAT", i0 |-> "NONE"]}

InitOnlyGroup ==
    /\ \E t \in ControlTypeChoices, gr \in ControlGuideChoices, m \in OnlyGroupModeChoices :
          cfg = MkControlCfg(t, gr.g, gr.d, m)
    /\ prodMode = cfg.prodMode0
    /\ injMode = cfg.injMode0
    /\ wells = [w \in Wells |->
                  [InitialWell(cfg.wtype[w]) EXCEPT !.open = InitiallyOpen(w)]]
    /\ indiv = [n \in Nodes |-> TRUE]
    /\ shouldUpdate = [n \in Nodes |-> FALSE]
    /\ last = [NoCall EXCEPT !.op = "init"] @@ [pre |-> State]
    /\ steps = 0
    /\ aq = NoAquifer
    /\ ms = NoSegmentedWell

NextOnlyGroup ==
    \/ steps < MaxControlSteps
       /\ \E w \in Wells, mode \in ApplyProdModes, target \in ApplyTargets :
             ApplyProdGroupControl(w, mode, target, TRUE)
    \/ steps < MaxControlSteps
       /\ \E w \in Wells, mode \in ApplyInjModes, target \in ApplyTargets :
             ApplyInjGroupControl(w, mode, target, TRUE)
    \/ steps < MaxControlSteps
       /\ \E g \in Groups : ApplyInjGroupControls(g)
    \/ steps < MaxControlSteps
       /\ \E g \in Groups, R \in ControlRateCases : ApplyExplicitReinjectionControls(g, R)
    \/ steps < MaxControlSteps
       /\ \E w \in Wells : SetIndividualControl(w, FALSE)

SpecOnlyGroup == InitOnlyGroup /\ [][NextOnlyGroup]_vars

(***************************************************************************)
(* Wells put under group control and then checked against their own limits *)
(***************************************************************************)
MaxLimitSteps == 3

\* well data in which the BHP limit of a producer W1 (150 < 200), of an
\* injector W1 (450 > 400), or no limit at all is violated
LimitRateCases ==
    {MkRates(WellVec(150, 220, 450), WellVec(0, 0, 0), WellVec(-25, -50, 0), WellVec(0, 0, 0)),
     MkRates(WellVec(450, 220, 220), WellVec(0, 0, 0), WellVec(50, 50, 0), WellVec(0, 0, 0)),
     MkRates(WellVec(220, 220, 220), WellVec(0, 0, 0), WellVec(50, 50, 0), WellVec(0, 0, 0))}

NextLimits ==
    \/ steps < MaxLimitSteps
       /\ \E g \in Groups, R \in LimitRateCases : ConditionsMet(g, R)
    \/ steps < MaxLimitSteps
       /\ \E g \in Groups, target \in ApplyTargets :
             ApplyProdGroupControl(g, "ORAT", target, FALSE)
    \/ steps < MaxLimitSteps
       /\ \E g \in Groups, target \in ApplyTargets :
             ApplyInjGroupControl(g, "RATE", target, FALSE)
    \/ steps < MaxLimitSteps
       /\ \E w \in Wells : SetIndividualControl(w, FALSE)

SpecLimits == Init /\ [][NextLimits]_vars

\* well data in which several nodes offend at once: every producer below
\* its BHP limit with the oil targets of both groups exceeded; and the
\* injection RATE target and the ORAT target of G0 both exceeded; and none
OffenderRateCases ==
    {MkRates(WellVec(150, 150, 150), WellVec(0, 0, 0), WellVec(-80, -30, -40),
             WellVec(0, 0, 0)),
     MkRates(WellVec(220, 220, 220), WellVec(80, 80, 0), WellVec(0, 0, -130),
             WellVec(-50, 0, 0)),
     MkRates(WellVec(220, 220, 220), WellVec(0, 0, 0), WellVec(50, 50, 0),
             WellVec(0, 0, 0))}

NextOffenders ==
    /\ steps < MaxSteps
    /\ \E g \in Groups, R \in OffenderRateCases : ConditionsMet(g, R)

SpecOffenders == Init /\ [][NextOffenders]_vars

\* wells that also have a reservoir-rate limit from the schedule, large enough
\* for the relative margin of its test to be more than one unit of rate
LimitWell(type) ==
    IF type = "PRODUCER"
    THEN [ctrls |-> <<Ctrl("BHP", RInt(200), "invalid_alq", ZeroVec),
                      Ctrl("SURFACE_RATE", RInt(-60), "invalid_alq", OilDistr),
                      Ctrl("RESERVOIR_RATE", RInt(-2000000), "invalid_alq", AllDistr)>>,
          current |-> 1, gci |-> -1, open |-> TRUE]
    ELSE [ctrls |-> <<Ctrl("BHP", RInt(400), "invalid_alq", ZeroVec),
                      Ctrl("SURFACE_RATE", RInt(90), "invalid_alq", AllDistr),
                      Ctrl("RESERVOIR_RATE", RInt(2000000), "invalid_alq", AllDistr)>>,
          current |-> 1, gci |-> -1, open |-> TRUE]

\* well data: BHP and surface rate out of their limits; a reservoir rate
\* above its limit within the margin; one beyond the margin; all within
WellLimitRateCases ==
    {MkRates(WellVec(150, 450, 150), WellVec(0, 0, 0), WellVec(-80, -80, -80),
             WellVec(0, 0, 0)),
     MkRates(WellVec(220, 220, 220), WellVec(95, 95, 0), WellVec(0, 0, -50),
             WellVec(1999906, 1999906, -1999951)),
     MkRates(WellVec(220, 220, 220), WellVec(95, 95, 0), WellVec(0, 0, -50),
             WellVec(1999908, 1999908, -1999953)),
     MkRates(WellVec(220, 220, 220), WellVec(50, 50, 0), WellVec(0, 0, -50),
             WellVec(0, 0, 0))}

InitWellLimits ==
    /\ \E t \in TypeChoices :
          cfg = MkCfg(t, WellVec(1, 1, 1), 1, [p |-> "NONE", i |-> "NONE", proc |-> "RATE"])
    /\ prodMode = cfg.prodMode0
    /\ injMode = cfg.injMode0
    /\ wells = [w \in Wells |-> LimitWell(cfg.wtype[w])]
    /\ indiv = [n \in Nodes |-> TRUE]
    /\ shouldUpdate = [n \in Nodes |-> FALSE]
    /\ last = [NoCall EXCEPT !.op = "init"] @@ [pre |-> State]
    /\ steps = 0
    /\ aq = NoAquifer
    /\ ms = NoSegmentedWell

NextWellLimits ==
    \/ steps < MaxLimitSteps
       /\ \E w \in {"W1", "W3"}, R \in WellLimitRateCases : ConditionsMet(w, R)
    \/ steps < MaxLimitSteps
       /\ \E w \in {"W1", "W3"}, target \in ApplyTargets :
             ApplyProdGroupControl(w, "ORAT", target, FALSE)
    \/ steps < MaxLimitSteps
       /\ \E target \in ApplyTargets : ApplyInjGroupControl("W1", "RATE", target, FALSE)

SpecWellLimits == InitWellLimits /\ [][NextWellLimits]_vars

(***************************************************************************)
(* The aquifer of a deck: it is constructed once, and then called at the   *)
(* step boundaries and at every assembly.  The grid, the connections, the  *)
(* parameters, the cells' fluid state and the timer are inputs.            *)
(***************************************************************************)
\* calls made on the aquifer object in one behaviour, its construction included
MaxAquiferCalls == 5

Face(tag, area) == [faceTag |-> tag, faceArea |-> RInt(area)]

\* the six faces of a box cell, in the order of their tags
BoxFaces == <<Face(0, 2), Face(1, 2), Face(2, 3), Face(3, 3), Face(4, 1), Face(5, 1)>>

CellDepths == [c \in GridCells |-> IF c = 2 THEN RInt(2) ELSE RInt(1)]

CartesianGrid == [cell2Faces |-> [c \in GridCells |-> BoxFaces], cellCenter |-> CellDepths]

\* a corner-point grid: cell 1 lies at a fault, so that its XPlus side is two
\* faces, and the top face of cell 2 is pinched out
FaultedGrid ==
    [cell2Faces |->
        [c \in GridCells |->
            IF c = 1 THEN <<Face(0, 2), Face(1, 1), Face(1, 1), Face(2, 3), Face(3, 3),
                            Face(4, 1), Face(5, 1)>>
            ELSE IF c = 2 THEN <<Face(0, 2), Face(1, 2), Face(2, 3), Face(3, 3), Face(4, 1)>>
            ELSE BoxFaces],
     cellCenter |-> CellDepths]

Grids == {CartesianGrid, FaultedGrid}

Connection(c, dir) == [global_index |-> c, reservoir_face_dir |-> dir]

AquiferConnections ==
    {<<Connection(0, "XPlus"), Connection(1, "XPlus")>>,
     <<Connection(0, "XMinus"), Connection(0, "ZPlus"), Connection(2, "YPlus")>>,
     <<Connection(2, "ZPlus")>>}

AquiferParams ==
    {[phi_aq |-> RInt(1), C_t |-> RInt(1), r_o |-> RInt(1), k_a |-> RInt(1),
      c1 |-> RInt(1), h |-> RInt(1), theta |-> RInt(1), c2 |-> RInt(1),
      d0 |-> RInt(1), p0_defaulted |-> FALSE, p0 |-> RInt(30),
      td |-> <<RInt(0), RInt(1)>>, pi |-> <<RInt(1), RInt(2)>>],
     [phi_aq |-> RInt(1), C_t |-> RInt(1), r_o |-> RInt(1), k_a |-> RInt(1),
      c1 |-> RInt(1), h |-> RInt(1), theta |-> RInt(1), c2 |-> RInt(2),
      d0 |-> RInt(1), p0_defaulted |-> TRUE, p0 |-> RZero,
      td |-> <<RInt(1), RInt(2), RInt(3)>>, pi |-> <<RInt(0), RInt(1), RInt(2)>>]}

Gravity == RInt(1)

\* a water pressure with its derivatives
Pressure(p, dSw) ==
    [v |-> RInt(p),
     d |-> [k \in PrimaryVars |-> IF k = 0 THEN RInt(1) ELSE IF k = 1 THEN RInt(dSw) ELSE RZero]]

SimLow ==
    [pressure |-> [c \in GridCells |-> Pressure(10, 0)],
     density |-> [c \in GridCells |-> EvalConst(RInt(1))],
     viscosity |-> RInt(2)]

SimHigh ==
    [pressure |-> [c \in GridCells |-> IF c = 0 THEN Pressure(45, 2) ELSE Pressure(20, 2)],
     density |-> [c \in GridCells |-> EvalConst(RInt(2))],
     viscosity |-> RInt(2)]

Sims == {SimLow, SimHigh}

Timers ==
    {[simulationTimeElapsed |-> RZero, currentStepLength |-> RInt(1)],
     [simulationTimeElapsed |-> RInt(1), currentStepLength |-> RInt(3)]}

AllPotentialDropsPositive(o) ==
    \A idx \in 1 .. Len(o.cell_idx_) : RLess(RZero, dpai(o, idx))

AquiferCommit(r, call) ==
    /\ aq' = [obj |-> r.obj, lin |-> r.lin,
              call |-> [call EXCEPT !.calls = aq.call.calls + 1],
              pre |-> [obj |-> aq.obj, lin |-> r.pre_lin],
              pure_influx |-> IF call.op = "assembleAquiferEq"
                              THEN aq.pure_influx /\ AllPotentialDropsPositive(r.obj)
                              ELSE aq.pure_influx]
    /\ UNCHANGED <<cfg, prodMode, injMode, wells, indiv, shouldUpdate, last, steps,
                   ms>>

Construct(params, connection, ugrid, sim) ==
    /\ aq.call.op = "none"
    /\ AquiferCommit([obj |-> AquiferCarterTracy(params, connection, Gravity, ugrid, sim),
                      lin |-> ZeroSystem, pre_lin |-> ZeroSystem],
                     [NoAquiferCall EXCEPT
                         !.op = "AquiferCarterTracy",
                         !.denom_face_areas =
                             initialize_connections(ugrid, connection).denom_face_areas])

BeforeTimeStep(sim) ==
    /\ aq.call.op # "none"
    /\ AquiferCommit([obj |-> before_time_step(aq.obj, sim), lin |-> aq.lin,
                      pre_lin |-> aq.lin],
                     [NoAquiferCall EXCEPT !.op = "before_time_step", !.sim = sim])

AssembleAquiferEq(sim, timer) ==
    /\ aq.call.op # "none"
    /\ AquiferCommit(assembleAquiferEq(aq.obj, aq.lin, sim, timer) @@ [pre_lin |-> aq.lin],
                     [NoAquiferCall EXCEPT !.op = "assembleAquiferEq", !.sim = sim,
                                           !.timer = timer])

AfterTimeStep(timer) ==
    /\ aq.call.op # "none"
    /\ AquiferCommit([obj |-> after_time_step(aq.obj, timer), lin |-> aq.lin,
                      pre_lin |-> aq.lin],
                     [NoAquiferCall EXCEPT !.op = "after_time_step", !.timer = timer])

\* the well tree of the deck plays no part in the aquifer's calls
InitAquifer == Init /\ cfg = CHOOSE c \in Configs : TRUE

NextAquifer ==
    \/ aq.call.calls < MaxAquiferCalls
       \* the cells are in their initial state when the aquifer is constructed
       /\ \E params \in AquiferParams, connection \in AquiferConnections,
             ugrid \in Grids :
             Construct(params, connection, ugrid, SimLow)
    \/ aq.call.calls < MaxAquiferCalls
       /\ \E sim \in Sims : BeforeTimeStep(sim)
    \/ aq.call.calls < MaxAquiferCalls
       /\ \E sim \in Sims, timer \in Timers : AssembleAquiferEq(sim, timer)
    \/ aq.call.calls < MaxAquiferCalls
       /\ \E timer \in Timers : AfterTimeStep(timer)

SpecAquifer == InitAquifer /\ [][NextAquifer]_vars

(***************************************************************************)
(* Calls on the multisegment well evaluator.  ms holds the latest call,    *)
(* its arguments (call), what it returned (out), the segments' recorded    *)
(* pressure drops (ws) and the rows of the linear system (lin), and what   *)
(* ws and lin were before the call (pre).                                  *)
(***************************************************************************)
\* number of pressure equations assembled in one behaviour
MaxAssembleCalls == 2

Infinity == <<1, 0>>
ResidualValues == {Rat(1, 2), RInt(-3), RInt(10), RInt(40), NaN, Infinity}

\* one equation's residuals take every combination of values over the
\* segments, the other equations hold one value in every segment
ResidualMatrices ==
    {[seg \in Segments |->
         [eq_idx \in WellEquations |-> IF eq_idx = focus THEN col[seg] ELSE rest]] :
        focus \in WellEquations, col \in [Segments -> ResidualValues],
        rest \in ResidualValues}

B_avgChoices ==
    {[c \in Components |-> IF c = 0 THEN RInt(2) ELSE Rat(1, 2)],
     [c \in Components |-> RInt(1)]}

\* the second has its relaxed tolerances below the strict ones
ToleranceChoices ==
    {[max_residual_allowed |-> RInt(16),
      tolerance_wells |-> RInt(1),
      relaxed_inner_tolerance_flow_ms_well |-> RInt(4),
      tolerance_pressure_ms_wells |-> RInt(2),
      relaxed_inner_tolerance_pressure_ms_well |-> RInt(8)],
     [max_residual_allowed |-> RInt(16),
      tolerance_wells |-> RInt(4),
      relaxed_inner_tolerance_flow_ms_well |-> RInt(1),
      tolerance_pressure_ms_wells |-> RInt(8),
      relaxed_inner_tolerance_pressure_ms_well |-> RInt(2)]}

MeasuredResiduals ==
    [0 .. numWellEq -> {RZero, Rat(1, 2), RInt(3), RInt(10), NaN}]

WellControls ==
    {[wellType |-> "INJECTOR", cmode |-> m] :
        m \in InjectorCModes \cup {"CMODE_UNDEFINED"}}
    \cup {[wellType |-> "PRODUCER", cmode |-> m] :
            m \in ProducerCModes \cup {"NONE"}}

SegmentChoices ==
    {[segmentType |-> t, status |-> "OPEN"] : t \in {"REGULAR", "SICD", "AICD", "VALVE"}}
    \cup {[segmentType |-> "VALVE", status |-> "SHUT"]}

WellChoices ==
    [frictionalPressureLossConsidered : BOOLEAN,
     accelerationalPressureLossConsidered : BOOLEAN]

SegmentedWellCommit(call, out, w) ==
    /\ ms' = [call |-> call @@ [calls |-> ms.call.calls + 1], out |-> out,
              ws |-> w.ws, lin |-> w.lin,
              pre |-> [ws |-> ms.ws, lin |-> ms.lin]]
    /\ UNCHANGED <<cfg, prodMode, injMode, wells, indiv, shouldUpdate, last, steps,
                   aq>>

GetWellConvergence(residual, cmode, B_avg, tol, relax_tolerance) ==
    SegmentedWellCommit(
           [op |-> "getWellConvergence", residual |-> residual, cmode |-> cmode,
            B_avg |-> B_avg, tol |-> tol, relax_tolerance |-> relax_tolerance],
           getWellConvergence(residual, cmode, B_avg, tol, relax_tolerance), ms)

GetFiniteWellResiduals(residual, B_avg) ==
    SegmentedWellCommit(
           [op |-> "getFiniteWellResiduals", residual |-> residual, B_avg |-> B_avg],
           getFiniteWellResiduals(residual, B_avg), ms)

GetResidualMeasureValue(control, residuals, tol) ==
    SegmentedWellCommit(
           [op |-> "getResidualMeasureValue", control |-> control,
            residuals |-> residuals, tol |-> tol],
           getResidualMeasureValue(control.wellType, control.cmode, residuals,
                                   tol.tolerance_wells,
                                   tol.tolerance_pressure_ms_wells), ms)

AssemblePressureEq(seg, segment, well) ==
    SegmentedWellCommit(
           [op |-> "assemblePressureEq", seg |-> seg, segment |-> segment,
            well |-> well],
           <<>>, assemblePressureEq(seg, ms, segment, well))

NextWellEval ==
    \/ ms.call.op = "none"
       /\ \E residual \in ResidualMatrices, cmode \in {"BHP", "ORAT"},
             tol \in ToleranceChoices, relax_tolerance \in BOOLEAN :
             GetWellConvergence(residual, cmode,
                                CHOOSE B \in B_avgChoices : B[0] # B[1],
                                tol, relax_tolerance)
    \/ ms.call.op = "none"
       /\ \E residual \in ResidualMatrices, B_avg \in B_avgChoices :
             GetFiniteWellResiduals(residual, B_avg)
    \/ ms.call.op = "none"
       /\ \E control \in WellControls, residuals \in MeasuredResiduals,
             tol \in ToleranceChoices :
             GetResidualMeasureValue(control, residuals, tol)

SpecWellEval == InitAquifer /\ [][NextWellEval]_vars

NextPressureEq ==
    /\ ms.call.calls < MaxAssembleCalls
    /\ \E seg \in Segments \ {0}, segment \in SegmentChoices, well \in WellChoices :
          AssemblePressureEq(seg, segment, well)

SpecPressureEq == InitAquifer /\ [][NextPressureEq]_vars

(***************************************************************************)
(* Properties.  They speak of the latest call (last) and of the state it   *)
(* started from (last.pre) and left (State).  The aggregates below are     *)
(* computed directly from the wells of a subtree, not by the traversal.    *)
(***************************************************************************)
\* the wells of the subtree of n, as a set
WellSet(n) == SeqSet(WellsOf(n))

\* the groups of the subtree of n (a group lies below n iff its wells do)
GroupsIn(n) == {g \in Groups : WellSet(g) \subseteq WellSet(n)}

RECURSIVE SumVecs(_, _)
SumVecs(ws, rates) ==
    IF ws = {} THEN ZeroVec
    ELSE LET w == CHOOSE x \in ws : TRUE
         IN  VecAdd(rates[w], SumVecs(ws \ {w}, rates))

ProducersOf(n) == {w \in WellSet(n) : isProducer(w)}
InjectorsOf(n) == {w \in WellSet(n) : isInjector(w)}

\* the rate of group g in a mode, aggregated over its producers / injectors
AggProdRate(g, R, mode) ==
    ProdRateByMode(SumVecs(ProducersOf(g), R.res), SumVecs(ProducersOf(g), R.surf), mode)
AggInjRate(g, R, mode) ==
    InjRateByMode(SumVecs(InjectorsOf(g), R.res), SumVecs(InjectorsOf(g), R.surf), mode)

\* the indices of the controls of well record wr
CtrlIndices(wr) == 0 .. (NumCtrls(wr) - 1)

CalledConditionsMet == last.op = "conditionsMet" /\ ~last.err

\* C1: whenever conditionsMet returns true on a node, then for every group of
\* its subtree and every production or injection mode that is not the group's
\* active mode and has a set target (>= 0), the rate aggregated over the
\* group's wells does not exceed the target, and no well of the subtree has a
\* violated control other than its current control and its group-control slot.
C1_MetMeansNoTargetExceeded ==
    (CalledConditionsMet /\ last.ret) =>
        /\ \A g \in GroupsIn(last.node) :
              /\ \A m \in SeqSet(ProdRateModes) :
                    (prodMode[g] # m /\ ProdTarget(g, m) >= 0)
                        => Abs(AggProdRate(g, last.R, m)) <= ProdTarget(g, m)
              /\ \A m \in SeqSet(InjRateModes) :
                    (injMode[g] # m /\ InjTarget(g, m) >= 0)
                        => AggInjRate(g, last.R, m) <= InjTarget(g, m)
        /\ \A w \in WellSet(last.node) : \A i \in CtrlIndices(wells[w]) :
              (i # wells[w].current /\ i # wells[w].gci)
                  => ~CtrlViolated(w, CtrlAt(wells[w], i), last.R)

\* conditionsMet returned true on the root with wells flowing and an inactive
\* target set on the nested group
C1_Witness ==
    /\ CalledConditionsMet /\ last.ret /\ last.node = "G0"
    /\ prodMode["G1"] # "ORAT" /\ ProdTarget("G1", "ORAT") >= 0
    /\ AggProdRate("G1", last.R, "ORAT") # 0

\* the latest call was conditionsMet on a group all of whose children were met
ChildrenReportedMet ==
    /\ CalledConditionsMet
    /\ ChildrenMet(last.node, last.R, 1, last.pre, ZeroSummed).ret

\* injection mode m was not the group's active mode when the call started, has
\* a target, and the aggregated injection rate is greater than it
InjExceeded(g, m) ==
    /\ last.pre.injMode[g] # m
    /\ InjTarget(g, m) > 0
    /\ AggInjRate(g, last.R, m) > InjTarget(g, m)

\* the state after applyInjGroupControl(m, target, false) on g from the state
\* the call started in, with m made the active injection mode
AfterInjResponse(g, m) ==
    [WellsGroup_applyInjGroupControl(last.pre, g, m, RInt(InjTarget(g, m)), FALSE).S
        EXCEPT !.injMode[g] = m]

\* the first mode in the order RATE, RESV that is exceeded, "none" if none is
FirstInjExceeded(g) ==
    IF InjExceeded(g, "RATE") THEN "RATE"
    ELSE IF InjExceeded(g, "RESV") THEN "RESV" ELSE "none"

WellRate(w, mode) == ProdRateByMode(last.R.res[w], last.R.surf[w], mode)

\* the wells of the subtree of n whose rate in the mode is largest in
\* absolute value
MaxAbsWells(n, mode) ==
    {w \in WellSet(n) :
        \A v \in WellSet(n) : Abs(WellRate(v, mode)) <= Abs(WellRate(w, mode))}

\* C3: getWorstOffending(mode) on a group returns the well of its subtree whose
\* rate in that mode has the maximum absolute value, paired with that rate.
C3_WorstIsMaxAbsolute ==
    (last.op = "getWorstOffending") =>
        /\ last.worst[1] \in MaxAbsWells(last.node, last.mode)
        /\ last.worst[2] = WellRate(last.worst[1], last.mode)

\* getWorstOffending returned a well although another well of the subtree has
\* a rate of larger absolute value
C3_Witness ==
    /\ last.op = "getWorstOffending"
    /\ last.worst[2] = WellRate(last.worst[1], last.mode)
    /\ \E v \in WellSet(last.node) : Abs(WellRate(v, last.mode)) > Abs(last.worst[2])

\* production mode m was not the group's active mode when the call started, has
\* a target, and the aggregated production rate exceeds it in absolute value
ProdExceeded(g, m) ==
    /\ last.pre.prodMode[g] # m
    /\ ProdTarget(g, m) >= 0
    /\ Abs(AggProdRate(g, last.R, m)) > ProdTarget(g, m)

\* the first exceeded mode in the order of the list, "none" if none is
FirstProdExceeded(g) ==
    LET I == {i \in 1..Len(ProdRateModes) : ProdExceeded(g, ProdRateModes[i])}
    IN  IF I = {} THEN "none"
        ELSE ProdRateModes[CHOOSE i \in I : \A j \in I : i <= j]

\* the latest call was conditionsMet on a group that got as far as finding a
\* production mode violated
FoundProdViolated ==
    /\ ChildrenReportedMet
    /\ FirstInjExceeded(last.node) = "none"
    /\ FirstProdExceeded(last.node) # "none"

\* C4: when a group's conditionsMet finds a production mode violated and the
\* group's procedure is WELL, it shuts exactly the worst-offending well of its
\* subtree for the violated mode (the well of maximum absolute rate), leaves
\* every other well's controls and every group's control mode unchanged, and
\* returns not met.
C4_WellProcedureShutsWorst ==
    (FoundProdViolated /\ cfg.procedure[last.node] = "WELL") =>
        /\ \E w \in MaxAbsWells(last.node, FirstProdExceeded(last.node)) :
              State = WellNode_shutWell(last.pre, w)
        /\ ~last.ret

\* the WELL procedure shut a well that is not one of maximum absolute rate
C4_Witness ==
    /\ FoundProdViolated /\ cfg.procedure[last.node] = "WELL" /\ ~last.ret
    /\ \E w \in WellSet(last.node) \ MaxAbsWells(last.node, FirstProdExceeded(last.node)) :
          /\ wells[w] # last.pre.wells[w]
          /\ State = WellNode_shutWell(last.pre, w)

\* The scenario of C5: group G1 with ORAT target 100 and procedure RATE over
\* two producers of equal (nonzero) guide rate
ScenarioGroup ==
    /\ isProducer("W1") /\ isProducer("W2")
    /\ cfg.pguide["W1"] = cfg.pguide["W2"] /\ cfg.pguide["W1"] > 0
    /\ ProdTarget("G1", "ORAT") = 100
    /\ cfg.procedure["G1"] = "RATE"

\* the latest call was conditionsMet on G1 with oil rates 80 and 30, the
\* wells' own limits respected
ScenarioCall ==
    /\ ScenarioGroup
    /\ ChildrenReportedMet /\ last.node = "G1"
    /\ last.R.surf["W1"][Liquid] = 80 /\ last.R.surf["W2"][Liquid] = 30

\* well w holds, as its current control, a group-control slot with the oil
\* rate target -(50 / eta) / eta_w, eta the efficiency factor of G1 and eta_w
\* that of the well (1 for a well as createWellWellsGroup builds it)
HoldsShare(w) ==
    /\ wells[w].gci >= 0 /\ wells[w].current = wells[w].gci
    /\ CtrlAt(wells[w], wells[w].gci).type = "SURFACE_RATE"
    /\ CtrlAt(wells[w], wells[w].gci).distr = OilDistr
    /\ CtrlAt(wells[w], wells[w].gci).target
         = RDiv(RNeg(RDiv(RInt(50), efficicencyFactor("G1"))), efficicencyFactor(w))

\* the rates R respect every set production target of G1 other than its
\* active mode, and every control of W1 and W2 other than the current one and
\* the group-control slot
Respected(R) ==
    /\ \A m \in SeqSet(ProdRateModes) :
          (prodMode["G1"] # m /\ ProdTarget("G1", m) >= 0)
              => Abs(ProdRateByMode(SumVecs({"W1", "W2"}, R.res),
                                    SumVecs({"W1", "W2"}, R.surf), m))
                     <= ProdTarget("G1", m)
    /\ \A w \in {"W1", "W2"} : \A i \in CtrlIndices(wells[w]) :
          (i # wells[w].current /\ i # wells[w].gci)
              => ~CtrlViolated(w, CtrlAt(wells[w], i), R)

NextCallOnG1 == last'.op = "conditionsMet" /\ last'.node = "G1" /\ ~last'.err

\* C5 (amended): in the scenario, when the group's active production mode is
\* neither ORAT nor NONE and the wells' own limits are respected, the
\* conditionsMet call returns false, installs on each child a group-control
\* slot with target -(50 / eta) as its current control and leaves the group in
\* mode FLD; the next conditionsMet call on the group returns true exactly
\* when the rates given to it respect the group's remaining targets and the
\* wells' own limits, and false again when the rates are still 80 and 30.
C5_ScenarioFirstAndNextCall ==
    /\ [](ScenarioCall /\ last.pre.prodMode["G1"] \notin {"ORAT", "NONE"}
             => /\ ~last.ret
                /\ HoldsShare("W1") /\ HoldsShare("W2")
                /\ prodMode["G1"] = "FLD")
    /\ [][(ScenarioCall /\ last.pre.prodMode["G1"] \notin {"ORAT", "NONE"}
              /\ NextCallOnG1)
             => /\ last'.ret <=> Respected(last'.R)
                /\ (last'.R = last.R) => ~last'.ret]_vars

\* after the shares were installed, a conditionsMet call on G1 returned true
C5_Witness ==
    /\ CalledConditionsMet /\ last.node = "G1" /\ last.ret
    /\ ScenarioGroup
    /\ last.pre.prodMode["G1"] = "FLD"
    /\ HoldsShare("W1") /\ HoldsShare("W2")

\* C5 as stated: whatever the group's active mode, the first call returns
\* false and installs the shares, and the next call (rates as they are)
\* returns true
C5_AsStated ==
    /\ [](ScenarioCall
             => /\ ~last.ret
                /\ HoldsShare("W1") /\ HoldsShare("W2"))
    /\ [][(ScenarioCall /\ ~last.ret /\ NextCallOnG1 /\ last'.R = last.R)
             => last'.ret]_vars

\* C6: when a group's conditionsMet finds a production mode violated and the
\* group's procedure is NONE_P, the call changes nothing: no well control, no
\* current-control selection, no group control mode, no individual-control
\* flag and not the caller's summed_phases; and it returns not met.
C6_NoneProcedureIsNoOp ==
    (FoundProdViolated /\ cfg.procedure[last.node] = "NONE_P") =>
        /\ State = last.pre
        /\ last.summedOut = last.summedIn
        /\ ~last.ret

\* a production target was found exceeded by flowing producers under the
\* procedure NONE_P
C6_Witness ==
    /\ FoundProdViolated /\ cfg.procedure[last.node] = "NONE_P"
    /\ ~last.ret
    /\ AggProdRate(last.node, last.R, FirstProdExceeded(last.node)) # 0

\* the sum over the children of g of their production guide rates
RECURSIVE ChildGuideSum(_, _, _, _)
ChildGuideSum(S, g, i, only_group) ==
    IF i > Len(children[g]) THEN 0
    ELSE productionGuideRate(S, children[g][i], only_group)
         + ChildGuideSum(S, g, i + 1, only_group)

\* the state after every child of g from the i-th on has received
\* applyProdGroupControl(mode, share * guideRate_c(only_group) / G, false)
RECURSIVE HandedDown(_, _, _, _, _, _, _)
HandedDown(S, g, i, mode, share, only_group, G) ==
    IF i > Len(children[g]) THEN S
    ELSE LET c == children[g][i]
             child_target ==
                 RDiv(RMul(share, RInt(productionGuideRate(last.pre, c, only_group))),
                      RInt(G))
         IN  HandedDown(applyProdGroupControl(S, c, mode, child_target, FALSE).S,
                        g, i + 1, mode, share, only_group, G)

CalledApplyProdOnGroup ==
    last.op = "applyProdGroupControl" /\ last.node \in Groups /\ ~last.err

\* C7: applyProdGroupControl(mode, target, only_group) on a group (whose mode
\* is not NONE): if only_group is true and the group's production mode is not
\* FLD, nothing changes; otherwise with G the sum over the children of
\* guideRate(only_group), if G = 0 nothing changes, else every child c
\* receives applyProdGroupControl(mode, (target / eta_self) * guideRate_c
\* (only_group) / G, false) and afterwards the group's production mode is FLD.
C7_ApplyProdOnGroup ==
    (CalledApplyProdOnGroup /\ last.pre.prodMode[last.node] # "NONE") =>
        IF last.only_group /\ last.pre.prodMode[last.node] # "FLD"
        THEN State = last.pre
        ELSE IF ChildGuideSum(last.pre, last.node, 1, last.only_group) = 0
        THEN State = last.pre
        ELSE State =
               [HandedDown(last.pre, last.node, 1, last.mode,
                           RDiv(last.target, efficicencyFactor(last.node)),
                           last.only_group,
                           ChildGuideSum(last.pre, last.node, 1, last.only_group))
                   EXCEPT !.prodMode[last.node] = "FLD"]

\* applyProdGroupControl with only_group on a group under group control whose
\* children are all individually controlled gave a well a group-control slot
C7_Witness ==
    /\ CalledApplyProdOnGroup /\ last.only_group
    /\ last.pre.prodMode[last.node] = "FLD"
    /\ ChildGuideSum(last.pre, last.node, 1, TRUE) = 0
    /\ \E w \in WellSet(last.node) :
          /\ last.pre.wells[w].gci < 0 /\ wells[w].gci >= 0
          /\ CtrlAt(wells[w], wells[w].gci).target = RZero

\* The latest call handed a production or an injection target to a group.
CalledApplyOnGroup ==
    /\ last.op \in {"applyProdGroupControl", "applyInjGroupControl"}
    /\ last.node \in Groups /\ ~last.err

\* the wells of the subtree of g the call is about (producers or injectors),
\* their guide rate, and the mode a group had when the call started
ControlledWells(g) ==
    {w \in WellSet(g) :
        IF last.op = "applyProdGroupControl" THEN isProducer(w) ELSE isInjector(w)}
GuideOf(w) ==
    IF last.op = "applyProdGroupControl" THEN cfg.pguide[w] ELSE cfg.iguide[w]
ModeBefore(g) ==
    IF last.op = "applyProdGroupControl" THEN last.pre.prodMode[g]
                                         ELSE last.pre.injMode[g]

\* the product of the efficiency factors of n and of the groups between n and
\* the group g above it (g excluded)
RECURSIVE PathEfficiency(_, _)
PathEfficiency(g, n) ==
    IF n = g THEN RInt(1)
    ELSE RMul(efficicencyFactor(n), PathEfficiency(g, parent[n]))

\* the magnitude of the target in the group-control slot of w (0 without slot)
SlotMagnitude(w) ==
    IF wells[w].gci < 0 THEN RZero
    ELSE RAbs(CtrlAt(wells[w], wells[w].gci).target)

RECURSIVE SumMagnitudes(_)
SumMagnitudes(ws) ==
    IF ws = {} THEN RZero
    ELSE LET w == CHOOSE x \in ws : TRUE
         IN  RAdd(SlotMagnitude(w), SumMagnitudes(ws \ {w}))

RECURSIVE SumWeightedMagnitudes(_, _)
SumWeightedMagnitudes(g, ws) ==
    IF ws = {} THEN RZero
    ELSE LET w == CHOOSE x \in ws : TRUE
         IN  RAdd(RMul(SlotMagnitude(w), PathEfficiency(g, w)),
                  SumWeightedMagnitudes(g, ws \ {w}))

\* the nodes below group g
Below(g) == (WellSet(g) \cup GroupsIn(g)) \ {g}

\* the call is not skipped at the group or at a group below it, and there are
\* wells to take the target, all with a guide rate
HandedDownToWells ==
    /\ \A h \in GroupsIn(last.node) : ModeBefore(h) # "NONE"
    /\ last.only_group => ModeBefore(last.node) = "FLD"
    /\ ControlledWells(last.node) # {}
    /\ \A w \in ControlledWells(last.node) : GuideOf(w) > 0

\* C8 (amended): applying a group control in mode M with target T to a group
\* such that the call is not skipped (no group of the subtree has mode NONE;
\* with only_group the group is in mode FLD), the subtree has wells of the
\* controlled kind, all with a positive guide rate and, if only_group is set,
\* no node below the group is individually controlled, makes the sum over
\* these wells of the magnitude of the installed target, multiplied by the
\* efficiency factors of the well and of the groups between it and the group,
\* equal to T / eta_group; for production and for injection.
C8_InstalledTargetsAddUp ==
    (/\ CalledApplyOnGroup /\ HandedDownToWells
     /\ last.only_group => \A n \in Below(last.node) : ~last.pre.indiv[n])
    => SumWeightedMagnitudes(last.node, ControlledWells(last.node))
         = RDiv(last.target, efficicencyFactor(last.node))

\* a target was handed down with only_group set by a group below which no
\* node is individually controlled, and reached its wells
C8_Witness ==
    /\ CalledApplyOnGroup /\ HandedDownToWells
    /\ last.only_group
    /\ \A n \in Below(last.node) : ~last.pre.indiv[n]
    /\ SumWeightedMagnitudes(last.node, ControlledWells(last.node)) # RZero

\* C8 as stated (for a call that is not skipped): when no child of the group
\* is individually controlled, the magnitudes of the installed targets add up
\* to T / eta_group
C8_AsStated ==
    (/\ CalledApplyOnGroup /\ HandedDownToWells
     /\ \A i \in 1..Len(children[last.node]) : ~last.pre.indiv[children[last.node][i]])
    => SumMagnitudes(ControlledWells(last.node))
         = RDiv(last.target, efficicencyFactor(last.node))

\* The controls of well w other than the one at index i are the same in the
\* well records a and b.
SameExceptAt(a, b, i) ==
    /\ NumCtrls(a) = NumCtrls(b)
    /\ \A j \in CtrlIndices(a) : j # i => CtrlAt(a, j) = CtrlAt(b, j)

\* C9: over any sequence of applyProdGroupControl, applyInjGroupControl and
\* shutWell calls a well has at most one group-control slot: the recorded
\* index is -1 or a valid index into the control list; the control count is
\* the initial count plus one exactly when a slot is recorded; the first
\* install appends one control and records its index; once set the index
\* never changes and a later install overwrites that slot only.
C9_OneGroupControlSlot ==
    \A w \in Wells :
        /\ wells[w].gci = -1 \/ wells[w].gci \in CtrlIndices(wells[w])
        /\ NumCtrls(wells[w])
             = NumCtrls(InitialWell(cfg.wtype[w])) + (IF wells[w].gci >= 0 THEN 1 ELSE 0)
        /\ (last.pre.wells[w].gci < 0 /\ wells[w].gci >= 0) =>
              /\ wells[w].gci = NumCtrls(last.pre.wells[w])
              /\ SubSeq(wells[w].ctrls, 1, NumCtrls(last.pre.wells[w]))
                   = last.pre.wells[w].ctrls
        /\ last.pre.wells[w].gci >= 0 =>
              /\ wells[w].gci = last.pre.wells[w].gci
              /\ SameExceptAt(wells[w], last.pre.wells[w], wells[w].gci)

\* an install on a well that had a group-control slot already rewrote it
C9_Witness ==
    /\ last.op \in {"applyProdGroupControl", "applyInjGroupControl"}
    /\ last.node \in Wells
    /\ last.pre.wells[last.node].gci >= 0
    /\ wells[last.node].ctrls # last.pre.wells[last.node].ctrls

\* the latest call installed a group control on a leaf well: a producer through
\* applyProdGroupControl or an injector through applyInjGroupControl, the call
\* not skipped
InstalledOnLeaf ==
    /\ last.node \in Wells /\ ~last.err
    /\ \/ last.op = "applyProdGroupControl" /\ isProducer(last.node)
       \/ last.op = "applyInjGroupControl" /\ isInjector(last.node)
    /\ ~(last.only_group /\ last.pre.indiv[last.node])

\* C10: whenever a group control is installed on a leaf well, on return the
\* group-control slot is the well's current control and the well is marked
\* not individually controlled.
C10_InstalledMeansGroupControlled ==
    InstalledOnLeaf =>
        /\ wells[last.node].gci >= 0
        /\ wells[last.node].current = wells[last.node].gci
        /\ ~indiv[last.node]

\* a group control was installed on a producer and is its current control,
\* and the producer is still marked individually controlled
C10_Witness ==
    /\ InstalledOnLeaf /\ isProducer(last.node)
    /\ wells[last.node].gci >= 0
    /\ wells[last.node].current = wells[last.node].gci
    /\ indiv[last.node]

(***************************************************************************)
(* The control a leaf well is given by a group-control apply               *)
(***************************************************************************)
\* the unit entries of the distribution vector as a set of phases
UnitPhases(distr) == {p \in Phases : distr[p] = 1}

\* the distribution vector has only entries 0 and 1
ZeroOne(distr) == \A p \in Phases : distr[p] \in {0, 1}

\* the latest call was made on a leaf well of the kind it controls, and the
\* well did not skip it
ReachedInstallOnLeaf ==
    /\ last.node \in Wells
    /\ \/ last.op = "applyProdGroupControl" /\ isProducer(last.node)
       \/ last.op = "applyInjGroupControl" /\ isInjector(last.node)
    /\ ~(last.only_group /\ last.pre.indiv[last.node])

\* the group-control slot of the well the latest call was made on
InstalledSlot == CtrlAt(wells[last.node], wells[last.node].gci)

\* type and unit phases a production mode asks for
ExpectedProdType(mode) == IF mode = "RESV" THEN "RESERVOIR_RATE" ELSE "SURFACE_RATE"
ExpectedProdPhases(mode) ==
    IF mode = "ORAT" THEN {Liquid}
    ELSE IF mode = "WRAT" THEN {Aqua}
    ELSE IF mode = "GRAT" THEN {Vapour}
    ELSE IF mode = "LRAT" THEN {Liquid, Aqua}
    ELSE Phases

\* C11: the control installed on a leaf well by a group-control apply.  For a
\* producer the target is the negated input target divided by the well's
\* efficiency factor, the type is SURFACE_RATE with unit entries on oil
\* (ORAT), water (WRAT), gas (GRAT), oil and water (LRAT), or RESERVOIR_RATE
\* with unit entries on all phases (RESV).  For an injector the target is the
\* input target divided by the well's efficiency factor, with unit entries on
\* all phases and type SURFACE_RATE (RATE) or RESERVOIR_RATE (RESV).  Any
\* other mode is an error and installs nothing.
C11_InstalledControl ==
    ReachedInstallOnLeaf =>
        IF last.op = "applyProdGroupControl"
        THEN IF last.mode \in {"ORAT", "WRAT", "GRAT", "LRAT", "RESV"}
             THEN /\ ~last.err
                  /\ wells[last.node].gci >= 0
                  /\ InstalledSlot.target
                       = RNeg(RDiv(last.target, efficicencyFactor(last.node)))
                  /\ InstalledSlot.type = ExpectedProdType(last.mode)
                  /\ ZeroOne(InstalledSlot.distr)
                  /\ UnitPhases(InstalledSlot.distr) = ExpectedProdPhases(last.mode)
             ELSE last.err /\ State = last.pre
        ELSE IF last.mode \in {"RATE", "RESV"}
             THEN /\ ~last.err
                  /\ wells[last.node].gci >= 0
                  /\ InstalledSlot.target = RDiv(last.target, efficicencyFactor(last.node))
                  /\ InstalledSlot.type
                       = (IF last.mode = "RATE" THEN "SURFACE_RATE" ELSE "RESERVOIR_RATE")
                  /\ UnitPhases(InstalledSlot.distr) = Phases
             ELSE last.err /\ State = last.pre

\* an LRAT control was installed on a producer whose efficiency factor is not 1
C11_Witness ==
    /\ ReachedInstallOnLeaf /\ ~last.err
    /\ last.op = "applyProdGroupControl" /\ last.mode = "LRAT"
    /\ efficicencyFactor(last.node) # RInt(1)
    /\ wells[last.node].gci >= 0
    /\ UnitPhases(InstalledSlot.distr) = {Liquid, Aqua}

(***************************************************************************)
(* shutWell                                                                *)
(***************************************************************************)
\* the latest call was shutWell on well w
ShutWellCalled(w) == last.op = "shutWell" /\ last.node = w

\* C12: shutWell on a well configured to hard-stop stops the well and changes
\* none of its control slots; otherwise it installs a SURFACE_RATE control
\* with target 0 in the well's group-control slot (appended after the
\* existing controls if the well had none, else overwriting the slot, all
\* other slots kept) and opens the well.
C12_ShutWell ==
    \A w \in Wells : ShutWellCalled(w) =>
        IF cfg.shut_well[w]
        THEN /\ ~wells[w].open
             /\ wells[w].ctrls = last.pre.wells[w].ctrls
             /\ wells[w].gci = last.pre.wells[w].gci
        ELSE /\ wells[w].open
             /\ wells[w].gci >= 0
             /\ CtrlAt(wells[w], wells[w].gci).type = "SURFACE_RATE"
             /\ CtrlAt(wells[w], wells[w].gci).target = RZero
             /\ IF last.pre.wells[w].gci < 0
                THEN /\ wells[w].gci = NumCtrls(last.pre.wells[w])
                     /\ NumCtrls(wells[w]) = NumCtrls(last.pre.wells[w]) + 1
                     /\ SubSeq(wells[w].ctrls, 1, NumCtrls(last.pre.wells[w]))
                          = last.pre.wells[w].ctrls
                ELSE /\ wells[w].gci = last.pre.wells[w].gci
                     /\ SameExceptAt(wells[w], last.pre.wells[w], wells[w].gci)

\* shutWell opened a stopped well that is not configured to hard-stop, and
\* overwrote the group-control slot the well had, which held another target
C12_Witness ==
    \E w \in Wells :
        /\ ShutWellCalled(w) /\ ~cfg.shut_well[w]
        /\ ~last.pre.wells[w].open /\ wells[w].open
        /\ last.pre.wells[w].gci >= 0
        /\ CtrlAt(last.pre.wells[w], last.pre.wells[w].gci).target # RZero

\* shutWell stopped a well configured to hard-stop
C12_WitnessStop ==
    \E w \in Wells :
        /\ ShutWellCalled(w) /\ cfg.shut_well[w]
        /\ last.pre.wells[w].open /\ ~wells[w].open

(***************************************************************************)
(* Voidage replacement                                                     *)
(***************************************************************************)
\* the reservoir production of the subtree of g, summed over the phases
ReservoirProduction(g, R) == VecSum(SumVecs(ProducersOf(g), R.res))

\* the children of g that are injector wells under group control before the
\* latest call
GroupControlledInjectorChildren(g) ==
    {c \in SeqSet(children[g]) : IsWell(c) /\ isInjector(c) /\ ~last.pre.indiv[c]}

\* the sum of the guide rates of the children of g that count for a split
\* among the group-controlled: injector wells under group control, and groups
RECURSIVE InjGuideOfGroupControlled(_)
InjGuideOfGroupControlled(n) ==
    IF IsWell(n) THEN (IF last.pre.indiv[n] THEN 0 ELSE cfg.iguide[n])
    ELSE LET RECURSIVE Sum(_)
             Sum(i) == IF i > Len(children[n]) THEN 0
                       ELSE InjGuideOfGroupControlled(children[n][i]) + Sum(i + 1)
         IN  Sum(1)

\* (g_c / G) * (-T_res) * voidageFraction for child c of group g
VoidageShare(g, c, R) ==
    RMul(RMul(Rat(cfg.iguide[c], InjGuideOfGroupControlled(g)),
              RInt(-ReservoirProduction(g, R))),
         cfg.voidage_replacment_fraction[g])

VrepCalled(g) ==
    /\ last.op = "applyExplicitReinjectionControls" /\ last.node = g
    /\ last.pre.injMode[g] = "VREP"

\* C13: for a group in injection mode VREP, applyExplicitReinjectionControls
\* applies to each child a RESV group control with target
\* (g_i/G) * (-T_res) * voidageFraction / eta_self, eta_self the group's
\* efficiency factor and T_res the reservoir production summed over the
\* phases; a group-controlled injector child then holds that target (over its
\* own efficiency factor) as a RESERVOIR_RATE control.  With one injector,
\* T_res = -50 and voidage fraction 1 the installed target is 50 / eta.
C13_VrepTarget ==
    \A g \in Groups : VrepCalled(g) =>
        \A c \in GroupControlledInjectorChildren(g) :
            /\ wells[c].gci >= 0
            /\ CtrlAt(wells[c], wells[c].gci).type = "RESERVOIR_RATE"
            /\ CtrlAt(wells[c], wells[c].gci).target
                 = RDiv(RDiv(VoidageShare(g, c, last.R), efficicencyFactor(g)),
                        efficicencyFactor(c))

\* what the call installs: the share is not divided by the group's efficiency
\* factor
C13_InstalledWithoutGroupEfficiency ==
    \A g \in Groups : VrepCalled(g) =>
        \A c \in GroupControlledInjectorChildren(g) :
            /\ wells[c].gci >= 0
            /\ CtrlAt(wells[c], wells[c].gci).type = "RESERVOIR_RATE"
            /\ CtrlAt(wells[c], wells[c].gci).target
                 = RDiv(VoidageShare(g, c, last.R), efficicencyFactor(c))

\* the scenario: group G1 (efficiency factor 1/2, voidage fraction 1) with
\* the single injector W1 under group control and reservoir production -50;
\* the injector holds the target 50, not 50 / (1/2) = 100
C13_Witness ==
    /\ VrepCalled("G1")
    /\ efficicencyFactor("G1") = <<1, 2>>
    /\ cfg.voidage_replacment_fraction["G1"] = RInt(1)
    /\ InjectorsOf("G1") = {"W1"} /\ ~last.pre.indiv["W1"]
    /\ ReservoirProduction("G1", last.R) = -50
    /\ wells["W1"].gci >= 0
    /\ CtrlAt(wells["W1"], wells["W1"].gci).target = RInt(50)

(***************************************************************************)
(* updateWellProductionTargets: the shares of the producers under group    *)
(* control                                                                 *)
(***************************************************************************)
UpdateCalled(g) ==
    last.op = "updateWellProductionTargets" /\ last.node = g /\ ~last.err

\* the node whose mode and target the update works with: the parent when the
\* group's mode is FLD
TargetOwner(g) == IF last.pre.prodMode[g] = "FLD" THEN parent[g] ELSE g
UpdateMode(g) == last.pre.prodMode[TargetOwner(g)]

\* producer children of g under individual control, and under group control,
\* before the call
IndividualProducers(g) ==
    {c \in SeqSet(children[g]) : IsWell(c) /\ isProducer(c) /\ last.pre.indiv[c]}
GroupControlledProducers(g) ==
    {c \in SeqSet(children[g]) : IsWell(c) /\ isProducer(c) /\ ~last.pre.indiv[c]}

\* the surface rate of well w in a production mode
SurfaceRate(w, mode) == ProdRateByMode(last.R.surf[w], last.R.surf[w], mode)

RECURSIVE SumIndividual(_, _)
\* sum of |rate * eta| over the wells ws
SumIndividual(ws, mode) ==
    IF ws = {} THEN RZero
    ELSE LET w == CHOOSE x \in ws : TRUE
         IN  RAdd(RAbs(RMul(RInt(SurfaceRate(w, mode)), efficicencyFactor(w))),
                  SumIndividual(ws \ {w}, mode))

RECURSIVE SumGuide(_)
SumGuide(ws) ==
    IF ws = {} THEN 0
    ELSE LET w == CHOOSE x \in ws : TRUE IN cfg.pguide[w] + SumGuide(ws \ {w})

\* the share well c was given: its installed target is -share / eta_c
ShareGiven(c) ==
    RNeg(RMul(CtrlAt(wells[c], wells[c].gci).target, efficicencyFactor(c)))

RECURSIVE SumShares(_)
SumShares(ws) ==
    IF ws = {} THEN RZero
    ELSE LET w == CHOOSE x \in ws : TRUE IN RAdd(ShareGiven(w), SumShares(ws \ {w}))

\* the update partitioned the remainder T - sum |rate * eta| among the
\* producers of g under group control
Partitioned(g, T) ==
    /\ \A c \in GroupControlledProducers(g) :
          /\ wells[c].gci >= 0 /\ wells[c].current = wells[c].gci
          /\ ShareGiven(c)
               = RMul(Rat(cfg.pguide[c], SumGuide(GroupControlledProducers(g))),
                      RSub(T, SumIndividual(IndividualProducers(g), UpdateMode(g))))
    /\ SumShares(GroupControlledProducers(g))
         = RSub(T, SumIndividual(IndividualProducers(g), UpdateMode(g)))

\* the update cleared should_update on exactly the producers under group
\* control, and left every other node as it was
TouchedOnlyGroupControlled(g) ==
    /\ \A c \in GroupControlledProducers(g) : ~shouldUpdate[c]
    /\ \A n \in Nodes \ GroupControlledProducers(g) :
          /\ shouldUpdate[n] = last.pre.shouldUpdate[n]
          /\ IsWell(n) => wells[n] = last.pre.wells[n]
    /\ indiv = last.pre.indiv
    /\ prodMode = last.pre.prodMode /\ injMode = last.pre.injMode

\* the guide rates of the producers under group control have a positive sum,
\* and no child group is under group control
SharesDefined(g) ==
    /\ SumGuide(GroupControlledProducers(g)) > 0
    /\ \A c \in SeqSet(children[g]) : ~IsWell(c) => last.pre.indiv[c]

\* C14 as stated: the target partitioned is the target T of the active mode
\* (the parent's when the group's mode is FLD).
C14_AsStated ==
    \A g \in Groups : (UpdateCalled(g) /\ SharesDefined(g)) =>
        /\ Partitioned(g, RInt(ProdTarget(TargetOwner(g), UpdateMode(g))))
        /\ TouchedOnlyGroupControlled(g)

\* the target the update works with: the target of the active mode over the
\* group's efficiency factor, and also over the parent's when it is the
\* parent's target
EffectiveTarget(g) ==
    IF last.pre.prodMode[g] = "FLD"
    THEN RDiv(RDiv(RInt(ProdTarget(parent[g], UpdateMode(g))),
                   efficicencyFactor(parent[g])),
              efficicencyFactor(g))
    ELSE RDiv(RInt(ProdTarget(g, UpdateMode(g))), efficicencyFactor(g))

\* C14: updateWellProductionTargets on a group takes the target T of the
\* active mode (the parent's mode and target when the group's mode is FLD)
\* divided by the group's efficiency factor (and by the parent's, for the
\* parent's target), subtracts the sum of |rate * eta| of its individually
\* controlled producer children, and partitions the remainder among the
\* producer children under group control in proportion to their guide rates
\* (their sum positive, no child group under group control): each holds its
\* share as group control, the shares sum to the remainder; should_update is
\* cleared on exactly these children, and every other node keeps its controls
\* and its flag.  A call that throws changes nothing.
C14_UpdateWellProductionTargets ==
    /\ \A g \in Groups : UpdateCalled(g) =>
          /\ SharesDefined(g) => Partitioned(g, EffectiveTarget(g))
          /\ TouchedOnlyGroupControlled(g)
    /\ (last.op = "updateWellProductionTargets" /\ last.err) => State = last.pre

\* an update on a group in mode FLD, with efficiency factor 1/2, one producer
\* under individual control contributing a rate and one under group control
\* whose should_update flag was set and is now cleared
C14_Witness ==
    /\ UpdateCalled("G1") /\ SharesDefined("G1")
    /\ last.pre.prodMode["G1"] = "FLD"
    /\ efficicencyFactor("G1") = <<1, 2>>
    /\ IndividualProducers("G1") # {} /\ GroupControlledProducers("G1") # {}
    /\ SumIndividual(IndividualProducers("G1"), UpdateMode("G1")) # RZero
    /\ \E c \in GroupControlledProducers("G1") :
           last.pre.shouldUpdate[c] /\ ~shouldUpdate[c]

(***************************************************************************)
(* The control state machine of a well                                     *)
(***************************************************************************)
\* during the latest call, a conditionsMet, well w had its current control
\* switched to one of its own controls (not the group-control slot)
SwitchedToLocalControl(w) ==
    /\ last.op = "conditionsMet"
    /\ wells[w].current # last.pre.wells[w].current
    /\ wells[w].current # wells[w].gci

\* C15: a group-controlled well becomes individual again when, during
\* conditionsMet, one of its own limits (BHP or rate) is violated and that
\* local control is selected as current: after the switch the well's
\* individualControl() is true.
C15_ViolatedLimitMakesIndividual ==
    \A w \in Wells : SwitchedToLocalControl(w) => indiv[w]

\* a well that held its group-control slot as current control and was not
\* individually controlled was switched to a local control, and is still
\* not individually controlled
C15_Witness ==
    \E w \in Wells :
        /\ SwitchedToLocalControl(w)
        /\ last.pre.wells[w].gci >= 0
        /\ last.pre.wells[w].current = last.pre.wells[w].gci
        /\ ~last.pre.indiv[w]
        /\ ~indiv[w]

\* what conditionsMet does: the switch leaves individual_control_ of the well
\* as it was
C15_SwitchKeepsIndividualControl ==
    \A w \in Wells : SwitchedToLocalControl(w) => indiv[w] = last.pre.indiv[w]

(***************************************************************************)
(* A zero sum of guide rates                                               *)
(***************************************************************************)
\* the latest call, op on group g, split a nonzero target by a zero sum of
\* guide rates: for each of the four operations, the sum it divides by and
\* the target it splits, in the state the call started from
ProdControlsSplitByZero(g) ==
    /\ last.op = "applyProdGroupControls" /\ last.node = g
    /\ last.pre.prodMode[g] \in {"ORAT", "WRAT", "LRAT", "RESV"}
    /\ productionGuideRate(last.pre, g, FALSE) = 0
    /\ ProdTarget(g, last.pre.prodMode[g]) # 0

InjControlsSplitByZero(g) ==
    /\ last.op = "applyInjGroupControls" /\ last.node = g
    /\ last.pre.injMode[g] \in {"RATE", "RESV"}
    /\ injectionGuideRate(last.pre, g, FALSE) = 0
    /\ InjTarget(g, last.pre.injMode[g]) # 0

ReinjectionSplitByZero(g) ==
    /\ last.op = "applyExplicitReinjectionControls" /\ last.node = g
    /\ \/ /\ last.pre.injMode[g] = "VREP"
          /\ ReservoirProduction(g, last.R) # 0
       \/ /\ last.pre.injMode[g] = "REIN"
          /\ SumVecs(ProducersOf(g), last.R.surf)[ReinjectedPhase(g)] # 0
    /\ injectionGuideRate(last.pre, g, TRUE) = 0

UpdateSplitByZero(g) ==
    /\ last.op = "updateWellProductionTargets" /\ last.node = g
    /\ GroupControlledProducers(g) # {}
    /\ productionGuideRate(last.pre, g, TRUE) = 0

\* some well holds a target that is not a number
HoldsNaN(w) ==
    \E i \in CtrlIndices(wells[w]) : CtrlAt(wells[w], i).target = NaN

\* C16: a zero aggregate guide rate combined with a nonzero target is a fatal
\* error: each of applyProdGroupControls, applyInjGroupControls,
\* applyExplicitReinjectionControls and updateWellProductionTargets raises an
\* error when the sum of the guide rates it divides by is zero, and installs
\* no target computed from that division.
C16_ZeroGuideRateIsFatal ==
    \A g \in Groups :
        (\/ ProdControlsSplitByZero(g) \/ InjControlsSplitByZero(g)
         \/ ReinjectionSplitByZero(g) \/ UpdateSplitByZero(g))
        => (last.err /\ wells = last.pre.wells)

\* applyInjGroupControls divided by a zero sum of guide rates, returned
\* without an error and left a well with a target that is not a number
C16_Witness ==
    \E g \in Groups, w \in Wells :
        /\ InjControlsSplitByZero(g) /\ ~last.err
        /\ HoldsNaN(w)

\* of the four operations, applyProdGroupControls is the one that raises the
\* error
C16_ProdControlsThrow ==
    \A g \in Groups : ProdControlsSplitByZero(g) => (last.err /\ State = last.pre)

\* the other three never raise it
C16_OthersReturn ==
    \A g \in Groups :
        (\/ InjControlsSplitByZero(g) \/ ReinjectionSplitByZero(g))
        => ~last.err

(***************************************************************************)
(* The aquifer's connections                                               *)
(***************************************************************************)
\* the state the constructor left (initialize_connections has just run)
JustConstructed == aq.call.op = "AquiferCarterTracy"

\* some connection found a face of its cell in its direction
HasConnectedFace ==
    \E idx \in 1 .. Len(aq.obj.cell_idx_) : RLess(RZero, aq.obj.faceArea_connected_[idx])

\* C17: after initialize_connections, for an aquifer with at least one
\* connected face, the area fractions alpha_i = faceArea_i / (sum of
\* faceArea_j) sum to one: the denominator accumulated over the matching faces
\* equals the sum of the stored per-connection face areas.
C17_AreaFractionsSumToOne ==
    (JustConstructed /\ HasConnectedFace)
        => /\ SumRationals(aq.obj.alphai_) = RInt(1)
           /\ aq.call.denom_face_areas = SumRationals(aq.obj.faceArea_connected_)

\* a cell with two faces in the connection's direction: both areas went into
\* the denominator, the second alone was stored
C17_Witness ==
    /\ JustConstructed
    /\ HasConnectedFace
    /\ RLess(SumRationals(aq.obj.faceArea_connected_), aq.call.denom_face_areas)
    /\ RLess(SumRationals(aq.obj.alphai_), RInt(1))

\* where every connection stored all that it added to the denominator, the
\* fractions do sum to one
C17_SumToOneWhenAreasStored ==
    (JustConstructed /\ HasConnectedFace
        /\ aq.call.denom_face_areas = SumRationals(aq.obj.faceArea_connected_))
        => SumRationals(aq.obj.alphai_) = RInt(1)

\* and every fraction is the stored area over the accumulated denominator
C17_FractionIsAreaOverDenominator ==
    JustConstructed
        => \A idx \in 1 .. Len(aq.obj.cell_idx_) :
              aq.obj.alphai_[idx] =
                  RDiv(aq.obj.faceArea_connected_[idx], aq.call.denom_face_areas)

(***************************************************************************)
(* The aquifer's step protocol                                             *)
(***************************************************************************)
AquiferCalled(op) == aq.call.op = op

ConnectionIndices == 1 .. Len(aq.obj.cell_idx_)

Values(evals) == [i \in 1 .. Len(evals) |-> evals[i].v]
Derivatives(evals, k) == [i \in 1 .. Len(evals) |-> evals[i].d[k]]

\* W + (sum of the Q_i) * dt, value and derivatives, for the W and the Q_i the
\* call started from
FluxAfterStep ==
    [v |-> RAdd(aq.pre.obj.W_flux_.v,
                RMul(SumRationals(Values(aq.pre.obj.Qai_)),
                     aq.call.timer.currentStepLength)),
     d |-> [k \in PrimaryVars |->
              RAdd(aq.pre.obj.W_flux_.d[k],
                   RMul(SumRationals(Derivatives(aq.pre.obj.Qai_, k)),
                        aq.call.timer.currentStepLength))]]

\* C18: over any sequence of before_time_step, assembleAquiferEq and
\* after_time_step calls, the previous-pressure snapshot changes only in
\* before_time_step; the cumulative flux W changes only in after_time_step,
\* where it becomes W + (sum of Q_i) * dt for the Q_i of the most recent
\* assembly (nothing but an assembly changes the Q_i); assembleAquiferEq
\* recomputes the current pressure, the density and Q_i of every connection
\* and leaves W and the snapshot as they were.
C18_StepProtocol ==
    /\ (AquiferCalled("assembleAquiferEq") \/ AquiferCalled("after_time_step"))
          => aq.obj.pressure_previous_ = aq.pre.obj.pressure_previous_
    /\ (AquiferCalled("assembleAquiferEq") \/ AquiferCalled("before_time_step"))
          => aq.obj.W_flux_ = aq.pre.obj.W_flux_
    /\ (AquiferCalled("after_time_step") \/ AquiferCalled("before_time_step"))
          => aq.obj.Qai_ = aq.pre.obj.Qai_
    /\ AquiferCalled("after_time_step") => aq.obj.W_flux_ = FluxAfterStep
    /\ AquiferCalled("before_time_step")
          => \A idx \in ConnectionIndices :
                aq.obj.pressure_previous_[idx] =
                    aq.call.sim.pressure[aq.obj.cell_idx_[idx]]
    /\ AquiferCalled("assembleAquiferEq")
          => \A idx \in ConnectionIndices :
                /\ aq.obj.pressure_current_[idx] =
                       aq.call.sim.pressure[aq.obj.cell_idx_[idx]]
                /\ aq.obj.rhow_[idx] = aq.call.sim.density[aq.obj.cell_idx_[idx]]
                /\ aq.obj.Qai_[idx] = calculate_inflow_rate(aq.obj, idx, aq.call.timer)

\* a step end that added the rates of two connections, computed by an
\* assembly after a snapshot, to the flux
C18_Witness ==
    /\ AquiferCalled("after_time_step")
    /\ Len(aq.obj.cell_idx_) >= 2
    /\ aq.obj.W_flux_ # aq.pre.obj.W_flux_
    /\ aq.obj.W_flux_ = FluxAfterStep
    /\ \E idx \in ConnectionIndices :
          /\ aq.obj.pressure_previous_[idx].v # RZero
          /\ aq.obj.pressure_current_[idx] # aq.obj.pressure_previous_[idx]
          /\ RLess(RZero, aq.obj.Qai_[idx].v)

(***************************************************************************)
(* The cumulative flux                                                     *)
(***************************************************************************)
\* the rates the step end adds are those the latest assembly left
RatesNonnegative ==
    \A idx \in ConnectionIndices : RAtLeast(aq.pre.obj.Qai_[idx].v, RZero)

FluxNotDecreased == RAtLeast(aq.obj.W_flux_.v, aq.pre.obj.W_flux_.v)

C19_FluxFellInPureInflux ==
    /\ AquiferCalled("after_time_step")
    /\ aq.pure_influx
    /\ ~aq.obj.params.p0_defaulted
    /\ AllPotentialDropsPositive(aq.pre.obj)
    /\ RLess(aq.obj.W_flux_.v, aq.pre.obj.W_flux_.v)

(***************************************************************************)
(* The aquifer's footprint in the linear system                            *)
(***************************************************************************)
\* what the connections of cell c let flow in: the sum of their Q_i's values,
\* and of their derivatives with respect to primary variable k
InflowOfCell(c) ==
    SumRationals([idx \in ConnectionIndices |->
                    IF aq.obj.cell_idx_[idx] = c THEN aq.obj.Qai_[idx].v ELSE RZero])

InflowDerivativeOfCell(c, k) ==
    SumRationals([idx \in ConnectionIndices |->
                    IF aq.obj.cell_idx_[idx] = c THEN aq.obj.Qai_[idx].d[k] ELSE RZero])

ConnectionCells == {aq.obj.cell_idx_[idx] : idx \in ConnectionIndices}

\* C20: assembleAquiferEq writes within the aquifer's footprint only, and
\* additively: for each connection cell c it subtracts Q_i's value from the
\* water-component residual of c and Q_i's derivative k from
\* J[c][c][water, k] for every primary variable k; every other residual entry
\* and Jacobian entry (other cells, off-diagonal blocks, other equation rows)
\* is left as it was.
C20_AssembleFootprint ==
    AquiferCalled("assembleAquiferEq")
        => /\ \A c \in GridCells, e \in Equations :
                 aq.lin.resid[c][e] =
                    IF c \in ConnectionCells /\ e = waterCompIdx
                    THEN RSub(aq.pre.lin.resid[c][e], InflowOfCell(c))
                    ELSE aq.pre.lin.resid[c][e]
           /\ \A c \in GridCells, c2 \in GridCells, e \in Equations, k \in PrimaryVars :
                 aq.lin.jac[c][c2][e][k] =
                    IF c \in ConnectionCells /\ c2 = c /\ e = waterCompIdx
                    THEN RSub(aq.pre.lin.jac[c][c2][e][k], InflowDerivativeOfCell(c, k))
                    ELSE aq.pre.lin.jac[c][c2][e][k]

\* a second assembly of an aquifer that is connected to one cell by two faces
\* and not to every cell of the grid: both rates went into the cell's water
\* row, on top of what the first assembly had left there
C20_Witness ==
    /\ AquiferCalled("assembleAquiferEq")
    /\ \E i \in ConnectionIndices, j \in ConnectionIndices :
          /\ i # j
          /\ aq.obj.cell_idx_[i] = aq.obj.cell_idx_[j]
          /\ aq.obj.Qai_[i].v # RZero
          /\ aq.obj.Qai_[j].v # RZero
          /\ aq.obj.Qai_[i].d[1] # RZero
          /\ aq.pre.lin.resid[aq.obj.cell_idx_[i]][waterCompIdx] # RZero
          /\ aq.lin.resid[aq.obj.cell_idx_[i]][waterCompIdx] #
                aq.pre.lin.resid[aq.obj.cell_idx_[i]][waterCompIdx]
          /\ aq.lin.jac[aq.obj.cell_idx_[i]][aq.obj.cell_idx_[i]][waterCompIdx][1] #
                aq.pre.lin.jac[aq.obj.cell_idx_[i]][aq.obj.cell_idx_[i]][waterCompIdx][1]
    /\ ConnectionCells # GridCells
    /\ aq.obj.W_flux_.v # NaN

(***************************************************************************)
(* The influence denominator                                               *)
(***************************************************************************)
\* the assembly just made computed its a and b from a denominator
\* PItd - td * PItdprime that is zero or negative
AssembledWithNonpositiveDenominator ==
    /\ AquiferCalled("assembleAquiferEq")
    /\ Len(aq.obj.cell_idx_) > 0
    /\ RAtLeast(RZero, InfluenceDenominator(aq.pre.obj, aq.call.timer))

\* C21: when the denominator PItd - tD * PItd' of the a, b coefficients is
\* nonpositive the engine reports a fatal fault instead of going on: no inflow
\* rate computed from that denominator is written into the residual or the
\* Jacobian (and none is kept for the step end to add to the flux).
C21_NonpositiveDenominatorIsFatal ==
    AssembledWithNonpositiveDenominator
        => /\ aq.lin = aq.pre.lin
           /\ aq.obj.Qai_ = aq.pre.obj.Qai_

\* an assembly with denominator -1/2 that went through: a rate that is a
\* number and not zero was subtracted from a water row
C21_Witness ==
    /\ AssembledWithNonpositiveDenominator
    /\ RLess(InfluenceDenominator(aq.pre.obj, aq.call.timer), RZero)
    /\ \E idx \in ConnectionIndices :
          /\ aq.obj.Qai_[idx].v # NaN
          /\ aq.obj.Qai_[idx].v # RZero
          /\ aq.lin.resid[aq.obj.cell_idx_[idx]][waterCompIdx] =
                RSub(aq.pre.lin.resid[aq.obj.cell_idx_[idx]][waterCompIdx],
                     aq.obj.Qai_[idx].v)

\* whatever the sign of the denominator, every assembly writes the rates it
\* computed
C21_EveryAssemblyWrites ==
    AquiferCalled("assembleAquiferEq")
        => /\ aq.lin = AssembleRows(aq.pre.lin, aq.obj, 1)
           /\ \A idx \in ConnectionIndices :
                 aq.obj.Qai_[idx] = calculate_inflow_rate(aq.obj, idx, aq.call.timer)

(***************************************************************************)
(* C22: getWellConvergence reports a NaN residual as a NotANumber failure: *)
(* if the residual of any segment in a mass-balance equation, or of any    *)
(* segment below the top in the pressure equation, is NaN, the report      *)
(* holds a well failure of severity NotANumber for that equation.          *)
(***************************************************************************)
WellEvalCalled(op) == ms.call.op = op

\* the failures the report holds for equation eq_idx
FailuresOf(report, eq_idx) ==
    {report[i] : i \in {j \in DOMAIN report :
        IF eq_idx < numComponents
        THEN report[j].type = "MassBalance" /\ report[j].phase = eq_idx
        ELSE report[j].type = "Pressure"}}

SeveritiesOf(report, eq_idx) == {f.severity : f \in FailuresOf(report, eq_idx)}

HasNaNResidual(residual, eq_idx) ==
    \E seg \in Segments : IsExamined(seg, eq_idx) /\ isnan(residual[seg][eq_idx])

C22_NaNReportedAsNotANumber ==
    WellEvalCalled("getWellConvergence")
        => \A eq_idx \in WellEquations :
              HasNaNResidual(ms.call.residual, eq_idx)
                  => "NotANumber" \in SeveritiesOf(ms.out, eq_idx)

\* every residual of a mass equation is NaN and the report has no failure
\* for that equation
C22_Witness ==
    /\ WellEvalCalled("getWellConvergence")
    /\ \E eq_idx \in Components :
          /\ \A seg \in Segments : isnan(ms.call.residual[seg][eq_idx])
          /\ FailuresOf(ms.out, eq_idx) = {}

\* what the code does: a NaN is never the larger of two values, so no
\* equation's maximum is NaN
C22_NoEquationReportedNotANumber ==
    WellEvalCalled("getWellConvergence")
        => \A eq_idx \in WellEquations :
              "NotANumber" \notin SeveritiesOf(ms.out, eq_idx)

(***************************************************************************)
(* C23: getWellConvergence classifies each equation's maximum residual     *)
(* (mass equations scaled by B_avg, over all segments; the pressure        *)
(* equation over the segments below the top; a NaN is never the maximum):  *)
(* TooLarge when it is above max_residual_allowed for a mass equation and  *)
(* when it is infinite for the pressure equation; otherwise Normal when it *)
(* is above the strict tolerance and no relaxed tolerance is in force, or  *)
(* above the relaxed tolerance; otherwise no failure.                      *)
(***************************************************************************)
\* the residuals of equation eq_idx that count, NaN left out
CountedResiduals(residual, B_avg, eq_idx) ==
    (IF eq_idx < numComponents
     THEN {RMul(B_avg[eq_idx], RAbs(residual[seg][eq_idx])) : seg \in Segments}
     ELSE {RAbs(residual[seg][eq_idx]) : seg \in Segments \ {0}}) \ {NaN}

LargestOf(values) ==
    IF values = {} THEN RZero
    ELSE CHOOSE m \in values : \A x \in values : ~RLess(m, x)

StrictTolerance(tol, eq_idx) ==
    IF eq_idx < numComponents THEN tol.tolerance_wells
    ELSE tol.tolerance_pressure_ms_wells

RelaxedTolerance(tol, eq_idx) ==
    IF eq_idx < numComponents THEN tol.relaxed_inner_tolerance_flow_ms_well
    ELSE tol.relaxed_inner_tolerance_pressure_ms_well

\* the claim as stated, of equation eq_idx with maximum m
ClassifiedAsStated(m, eq_idx, tol, relax_tolerance, severities) ==
    /\ (~isinf(m) /\ RGreater(m, tol.max_residual_allowed))
           => severities = {"TooLarge"}
    /\ (~RGreater(m, tol.max_residual_allowed) /\ ~relax_tolerance
        /\ RGreater(m, StrictTolerance(tol, eq_idx)))
           => severities = {"Normal"}
    /\ (~RGreater(m, tol.max_residual_allowed) /\ relax_tolerance)
           => (severities # {} <=> RGreater(m, RelaxedTolerance(tol, eq_idx)))
    /\ (~relax_tolerance /\ ~RGreater(m, StrictTolerance(tol, eq_idx)))
           => severities = {}

C23_AsStated ==
    WellEvalCalled("getWellConvergence")
        => \A eq_idx \in WellEquations :
              ClassifiedAsStated(
                  LargestOf(CountedResiduals(ms.call.residual, ms.call.B_avg, eq_idx)),
                  eq_idx, ms.call.tol, ms.call.relax_tolerance,
                  SeveritiesOf(ms.out, eq_idx))

IsTooLarge(m, eq_idx, tol) ==
    IF eq_idx < numComponents THEN RGreater(m, tol.max_residual_allowed)
    ELSE isinf(m)

Classified(m, eq_idx, tol, relax_tolerance, severities) ==
    /\ IsTooLarge(m, eq_idx, tol) => severities = {"TooLarge"}
    /\ (~IsTooLarge(m, eq_idx, tol) /\ ~relax_tolerance
        /\ RGreater(m, StrictTolerance(tol, eq_idx)))
           => severities = {"Normal"}
    /\ (~IsTooLarge(m, eq_idx, tol) /\ relax_tolerance)
           => (IF RGreater(m, RelaxedTolerance(tol, eq_idx))
               THEN severities = {"Normal"} ELSE severities = {})
    /\ (~relax_tolerance /\ ~RGreater(m, StrictTolerance(tol, eq_idx))
        /\ ~RGreater(m, RelaxedTolerance(tol, eq_idx)))
           => severities = {}

C23_Classification ==
    WellEvalCalled("getWellConvergence")
        => \A eq_idx \in WellEquations :
              /\ Classified(
                     LargestOf(CountedResiduals(ms.call.residual, ms.call.B_avg,
                                                eq_idx)),
                     eq_idx, ms.call.tol, ms.call.relax_tolerance,
                     SeveritiesOf(ms.out, eq_idx))
              /\ Cardinality(FailuresOf(ms.out, eq_idx)) <= 1

\* a finite pressure residual above max_residual_allowed, below the top,
\* is reported Normal while a mass equation is reported TooLarge
C23_Witness ==
    /\ WellEvalCalled("getWellConvergence")
    /\ ~isinf(LargestOf(CountedResiduals(ms.call.residual, ms.call.B_avg, SPres)))
    /\ RGreater(LargestOf(CountedResiduals(ms.call.residual, ms.call.B_avg, SPres)),
                ms.call.tol.max_residual_allowed)
    /\ SeveritiesOf(ms.out, SPres) = {"Normal"}
    /\ SeveritiesOf(ms.out, 0) = {"TooLarge"}
    /\ ms.call.relax_tolerance

\* without a relaxed tolerance in force, a residual at or below the strict
\* tolerance is reported when the relaxed tolerance lies below it
C23_ReportedBelowStrictTolerance ==
    /\ WellEvalCalled("getWellConvergence")
    /\ ~ms.call.relax_tolerance
    /\ \E eq_idx \in WellEquations :
          /\ ~RGreater(LargestOf(CountedResiduals(ms.call.residual, ms.call.B_avg,
                                                  eq_idx)),
                       StrictTolerance(ms.call.tol, eq_idx))
          /\ SeveritiesOf(ms.out, eq_idx) = {"Normal"}

(***************************************************************************)
(* C24: for a segment below the top of type VALVE with status SHUT,        *)
(* assemblePressureEq assembles only the trivial equation WQTotal(s) = 0   *)
(* (no pressure equation against the outlet, no acceleration term) and     *)
(* records a friction pressure drop of zero for the segment; the           *)
(* hydrostatic and acceleration drops recorded for it stay as they were.   *)
(***************************************************************************)
AssembledShutValve ==
    /\ WellEvalCalled("assemblePressureEq")
    /\ ms.call.segment.segmentType = "VALVE"
    /\ ms.call.segment.status = "SHUT"

TrivialRow(seg) ==
    /\ ms.lin[seg].eq = "trivial"
    /\ ms.lin[seg].value = WQTotalValue[seg]
    /\ ms.lin[seg].loss = RZero

\* the claim as stated: all three recorded drops are zero
C24_AsStated ==
    AssembledShutValve
        => /\ TrivialRow(ms.call.seg)
           /\ ms.ws.pressure_drop_hydrostatic[ms.call.seg] = RZero
           /\ ms.ws.pressure_drop_friction[ms.call.seg] = RZero
           /\ ms.ws.pressure_drop_accel[ms.call.seg] = RZero

C24_ShutValve ==
    AssembledShutValve
        => /\ TrivialRow(ms.call.seg)
           /\ ms.ws.pressure_drop_friction[ms.call.seg] = RZero
           /\ ms.ws.pressure_drop_hydrostatic = ms.pre.ws.pressure_drop_hydrostatic
           /\ ms.ws.pressure_drop_accel = ms.pre.ws.pressure_drop_accel
           /\ \A seg \in Segments \ {ms.call.seg} :
                 /\ ms.lin[seg] = ms.pre.lin[seg]
                 /\ ms.ws.pressure_drop_friction[seg]
                        = ms.pre.ws.pressure_drop_friction[seg]

\* the segment was assembled as a regular one before, with friction and
\* acceleration: the valve's assembly replaces its pressure row, zeroes the
\* friction drop and keeps the other two
C24_Witness ==
    /\ AssembledShutValve
    /\ ms.pre.lin[ms.call.seg].eq = "pressure"
    /\ ms.pre.lin[ms.call.seg].loss # RZero
    /\ ms.pre.ws.pressure_drop_friction[ms.call.seg] # RZero
    /\ ms.ws.pressure_drop_friction[ms.call.seg] = RZero
    /\ ms.ws.pressure_drop_hydrostatic[ms.call.seg] # RZero
    /\ ms.ws.pressure_drop_accel[ms.call.seg] # RZero
    /\ ms.lin[ms.call.seg].eq = "trivial"

(***************************************************************************)
(* C25: getResidualMeasureValue returns the sum, over the mass equations,  *)
(* the pressure equation and the control equation, of residual/tolerance   *)
(* for those equations whose residual is above its tolerance               *)
(* (tolerance_wells for a mass equation, tolerance_pressure_ms_wells for   *)
(* the pressure equation, getControlTolerance for the control equation),   *)
(* each equation counted once; its assertion holds exactly when some       *)
(* residual is above its tolerance.                                        *)
(***************************************************************************)
MeasureTolerance(e) ==
    IF e < numComponents THEN ms.call.tol.tolerance_wells
    ELSE IF e = SPres THEN ms.call.tol.tolerance_pressure_ms_wells
    ELSE IF ms.call.control.cmode = "THP" THEN ms.call.tol.tolerance_pressure_ms_wells
    ELSE ms.call.tol.tolerance_wells

AboveTolerance(e) == RGreater(ms.call.residuals[e], MeasureTolerance(e))

MeasureTerm(e) ==
    IF AboveTolerance(e) THEN RDiv(ms.call.residuals[e], MeasureTolerance(e))
    ELSE RZero

RECURSIVE SumOfTerms(_)
SumOfTerms(es) ==
    IF es = {} THEN RZero
    ELSE RAdd(MeasureTerm(CHOOSE e \in es : TRUE),
              SumOfTerms(es \ {CHOOSE e \in es : TRUE}))

MeasureReturned ==
    WellEvalCalled("getResidualMeasureValue") /\ ~ms.out.thrown

C25_ResidualMeasure ==
    MeasureReturned
        => /\ ms.out.sum = SumOfTerms(0 .. numWellEq)
           /\ ms.out.asserted <=> \E e \in 0 .. numWellEq : AboveTolerance(e)

\* a well under THP control: the control residual is measured against the
\* pressure tolerance and counted, a mass residual is too small to count
C25_Witness ==
    /\ MeasureReturned
    /\ ms.call.control.cmode = "THP"
    /\ ms.call.tol.tolerance_pressure_ms_wells # ms.call.tol.tolerance_wells
    /\ AboveTolerance(numWellEq) /\ AboveTolerance(SPres) /\ AboveTolerance(0)
    /\ ~AboveTolerance(1)
    /\ ms.call.residuals[1] # RZero
    /\ ms.out.asserted
    /\ ms.out.sum = RAdd(RAdd(MeasureTerm(0), MeasureTerm(SPres)),
                         MeasureTerm(numWellEq))

\* a control mode that getControlTolerance does not know ends the call
C25_UnknownControlModeThrows ==
    WellEvalCalled("getResidualMeasureValue")
        => (ms.out.thrown <=>
                ms.call.control.cmode \notin
                    (IF ms.call.control.wellType = "INJECTOR"
                     THEN InjectorCModes ELSE ProducerCModes))

(***************************************************************************)
(* C30: getFiniteWellResiduals returns false exactly when a residual it    *)
(* examines is NaN or infinite: the mass residuals of all segments scaled  *)
(* by B_avg, the pressure residuals of the segments below the top, and the *)
(* control residual, which is the top segment's last equation.  Otherwise  *)
(* it returns true with numWellEq + 1 entries: entry e < numWellEq is the  *)
(* largest examined residual of equation e, the last entry is the control  *)
(* residual, and the top segment's last equation has no part in the        *)
(* pressure entry.                                                         *)
(***************************************************************************)
ExaminedResiduals(residual, B_avg, eq_idx) ==
    IF eq_idx < numComponents
    THEN {RMul(RAbs(residual[seg][eq_idx]), B_avg[eq_idx]) : seg \in Segments}
    ELSE {RAbs(residual[seg][eq_idx]) : seg \in Segments \ {0}}

AllExamined(residual, B_avg) ==
    UNION {ExaminedResiduals(residual, B_avg, eq_idx) : eq_idx \in WellEquations}
    \cup {RAbs(residual[0][numWellEq - 1])}

C30_FiniteWellResiduals ==
    WellEvalCalled("getFiniteWellResiduals")
        => /\ ~ms.out.finite
                <=> \E r \in AllExamined(ms.call.residual, ms.call.B_avg) :
                       isnan(r) \/ isinf(r)
           /\ ms.out.finite
                => /\ DOMAIN ms.out.residuals = 0 .. numWellEq
                   /\ \A eq_idx \in WellEquations :
                         ms.out.residuals[eq_idx]
                             = LargestOf(ExaminedResiduals(ms.call.residual,
                                                           ms.call.B_avg, eq_idx))
                   /\ ms.out.residuals[numWellEq]
                          = RAbs(ms.call.residual[0][numWellEq - 1])

\* the top segment's last residual is larger than the pressure residual of
\* every segment below: it is the control entry and not the pressure entry
C30_Witness ==
    /\ WellEvalCalled("getFiniteWellResiduals")
    /\ ms.out.finite
    /\ RLess(ms.out.residuals[SPres], ms.out.residuals[numWellEq])
    /\ RLess(RZero, ms.out.residuals[SPres])
    /\ ms.out.residuals[0] # RAbs(ms.call.residual[0][0])
    /\ \E seg \in Segments :
          ms.out.residuals[0] = RMul(RAbs(ms.call.residual[seg][0]), ms.call.B_avg[0])

(***************************************************************************)
(* C26: one conditionsMet call performs at most one corrective action.     *)
(* The nodes are tried children first, in order; the first node with a     *)
(* violated constraint acts and ends the call: no later child is visited,  *)
(* no group above it checks its own targets or changes its modes, nothing  *)
(* is added to the caller's summed_phases; a group whose injection target  *)
(* (RATE before RESV) is exceeded does not go on to its production targets *)
(* (ORAT, WRAT, GRAT, LRAT, RESV).                                         *)
(***************************************************************************)
\* the nodes of the subtree of n, every node after the nodes below it
RECURSIVE PostOrder(_)
RECURSIVE PostOrderOfChildren(_, _)
PostOrderOfChildren(g, i) ==
    IF i > Len(children[g]) THEN <<>>
    ELSE PostOrder(children[g][i]) \o PostOrderOfChildren(g, i + 1)

PostOrder(n) == IF IsWell(n) THEN <<n>> ELSE PostOrderOfChildren(n, 1) \o <<n>>

\* the controls of well w that are tested and violated, in the state the
\* call started from
ViolatedControls(w) ==
    {i \in CtrlIndices(last.pre.wells[w]) :
        /\ i # last.pre.wells[w].current
        /\ i # last.pre.wells[w].gci
        /\ CtrlViolated(w, CtrlAt(last.pre.wells[w], i), last.R)}

InjViolated(g, m) ==
    /\ last.pre.injMode[g] # m
    /\ InjTarget(g, m) >= 0
    /\ AggInjRate(g, last.R, m) > InjTarget(g, m)

FirstInjViolated(g) ==
    IF InjViolated(g, "RATE") THEN "RATE"
    ELSE IF InjViolated(g, "RESV") THEN "RESV" ELSE "none"

Offends(n) ==
    IF IsWell(n) THEN ViolatedControls(n) # {}
    ELSE FirstInjViolated(n) # "none" \/ FirstProdExceeded(n) # "none"

OffenderPositions(n) == {i \in 1 .. Len(PostOrder(n)) : Offends(PostOrder(n)[i])}

FirstOffender(n) ==
    IF OffenderPositions(n) = {} THEN "none"
    ELSE PostOrder(n)[CHOOSE i \in OffenderPositions(n) :
                          \A j \in OffenderPositions(n) : i <= j]

\* the state after the one action of node n, from the state the call started in
AfterActionOf(n) ==
    IF IsWell(n)
    THEN [last.pre EXCEPT !.wells[n] =
             set_current_control(last.pre.wells[n],
                 CHOOSE i \in ViolatedControls(n) :
                     \A j \in ViolatedControls(n) : i <= j)]
    ELSE IF FirstInjViolated(n) # "none"
    THEN [WellsGroup_applyInjGroupControl(
              last.pre, n, FirstInjViolated(n),
              RInt(InjTarget(n, FirstInjViolated(n))), FALSE).S
            EXCEPT !.injMode[n] = FirstInjViolated(n)]
    ELSE ProductionViolated(last.pre, n, FirstProdExceeded(n), last.R).S

UntouchedOutside(n) ==
    /\ \A w \in Wells \ WellSet(n) :
          wells[w] = last.pre.wells[w] /\ indiv[w] = last.pre.indiv[w]
    /\ \A g \in Groups \ GroupsIn(n) :
          /\ prodMode[g] = last.pre.prodMode[g]
          /\ injMode[g] = last.pre.injMode[g]
          /\ indiv[g] = last.pre.indiv[g]

C26_AtMostOneCorrectiveAction ==
    CalledConditionsMet
        => IF FirstOffender(last.node) = "none"
           THEN last.ret /\ State = last.pre
           ELSE /\ ~last.ret
                /\ State = AfterActionOf(FirstOffender(last.node))
                /\ UntouchedOutside(FirstOffender(last.node))
                /\ last.summedOut = last.summedIn

\* a call on the root in which a node below the nested group acts while a
\* later child and the root itself offend as well and are left alone
C26_Witness ==
    /\ CalledConditionsMet /\ last.node = "G0"
    /\ FirstOffender("G0") \in {"W1", "W2", "G1"}
    /\ Offends("W3") /\ Offends("G0")
    /\ State # last.pre
    /\ wells["W3"] = last.pre.wells["W3"]

\* the root's injection RATE target and its ORAT target are both exceeded:
\* the injection response is made and no producer is touched
C26_InjectionEndsTheCall ==
    /\ CalledConditionsMet /\ last.node = "G0"
    /\ FirstOffender("G0") = "G0"
    /\ FirstInjViolated("G0") = "RATE" /\ FirstProdExceeded("G0") = "ORAT"
    /\ injMode["G0"] = "RATE" /\ prodMode = last.pre.prodMode
    /\ \A w \in ProducersOf("G0") : wells[w] = last.pre.wells[w]
    /\ \E w \in InjectorsOf("G0") : wells[w] # last.pre.wells[w]

(***************************************************************************)
(* C27: WellNode::conditionsMet never tests the well's current control nor *)
(* its group-control slot.  It examines the other controls in index order; *)
(* the first violated one (BHP below the limit for a producer, above it    *)
(* for an injector; |rate| above |target| for SURFACE_RATE; |rate| above   *)
(* |target| by more than a relative margin of 1e-6 for RESERVOIR_RATE)     *)
(* becomes the current control and the call returns false; nothing else    *)
(* changes.  If none is violated the call returns true and changes         *)
(* nothing.                                                                *)
(***************************************************************************)
CalledConditionsMetOnWell == CalledConditionsMet /\ IsWell(last.node)

WeightedRate(distr, rates) ==
    distr[1] * rates[1] + distr[2] * rates[2] + distr[3] * rates[3]

\* control c of well w is out of its limit, with the rates in 1e-6 units for
\* the margin of the reservoir rate
OutOfLimit(w, c) ==
    IF c.type = "BHP"
    THEN IF isProducer(w) THEN RLess(RInt(last.R.bhp[w]), c.target)
         ELSE RLess(c.target, RInt(last.R.bhp[w]))
    ELSE IF c.type = "SURFACE_RATE"
    THEN RLess(RAbs(c.target), RInt(Abs(WeightedRate(c.distr, last.R.surf[w]))))
    ELSE RLess(RMul(RMax(RInt(Abs(WeightedRate(c.distr, last.R.res[w]))),
                         RAbs(c.target)),
                    Rat(1, 1000000)),
               RSub(RInt(Abs(WeightedRate(c.distr, last.R.res[w]))), RAbs(c.target)))

TestedOutOfLimit(w) ==
    {i \in CtrlIndices(last.pre.wells[w]) :
        /\ i # last.pre.wells[w].current
        /\ i # last.pre.wells[w].gci
        /\ OutOfLimit(w, CtrlAt(last.pre.wells[w], i))}

C27_FirstViolatedControlBecomesCurrent ==
    CalledConditionsMetOnWell
        => IF TestedOutOfLimit(last.node) = {}
           THEN last.ret /\ State = last.pre
           ELSE /\ ~last.ret
                /\ State = [last.pre EXCEPT !.wells[last.node].current =
                              CHOOSE i \in TestedOutOfLimit(last.node) :
                                  \A j \in TestedOutOfLimit(last.node) : i <= j]

\* the well's group-control slot and two of its other controls are out of
\* their limits: the one of lower index becomes current, the slot stays
\* untested
C27_Witness ==
    /\ CalledConditionsMetOnWell /\ ~last.ret
    /\ last.pre.wells[last.node].gci >= 0
    /\ last.pre.wells[last.node].gci # last.pre.wells[last.node].current
    /\ OutOfLimit(last.node, CtrlAt(last.pre.wells[last.node],
                                    last.pre.wells[last.node].gci))
    /\ Cardinality(TestedOutOfLimit(last.node)) >= 2
    /\ wells[last.node].current # last.pre.wells[last.node].current

\* a reservoir rate above its limit by less than the margin is no violation
C27_WithinMarginIsMet ==
    /\ CalledConditionsMetOnWell /\ last.ret
    /\ \E i \in CtrlIndices(last.pre.wells[last.node]) :
          /\ i # last.pre.wells[last.node].current
          /\ CtrlAt(last.pre.wells[last.node], i).type = "RESERVOIR_RATE"
          /\ RLess(RAbs(CtrlAt(last.pre.wells[last.node], i).target),
                   RInt(Abs(WeightedRate(CtrlAt(last.pre.wells[last.node], i).distr,
                                         last.R.res[last.node]))))

(***************************************************************************)
(* C28: for a group whose production control mode is NONE and whose        *)
(* procedure is RATE, a production-target violation found by conditionsMet *)
(* changes no well control and no control mode, so that the same call      *)
(* with the same rates returns not met again, however often it is made.    *)
(* For a group whose mode is not NONE and whose production guide rate is   *)
(* not zero, the RATE response leaves the group's production control mode  *)
(* at FLD, not at the violated mode; with a guide rate of zero it leaves   *)
(* the mode as it was.                                                     *)
(***************************************************************************)
RateResponse == FoundProdViolated /\ cfg.procedure[last.node] = "RATE"

NoneRateViolation == RateResponse /\ last.pre.prodMode[last.node] = "NONE"

SameCallAgain ==
    last'.op = "conditionsMet" /\ last'.node = last.node /\ last'.R = last.R

C28_NoneModeNeverResolves ==
    /\ [](NoneRateViolation => ~last.ret /\ State = last.pre)
    /\ [][(NoneRateViolation /\ SameCallAgain)
             => (~last'.ret /\ ~last'.err /\ State' = State)]_vars
    /\ [](RateResponse /\ last.pre.prodMode[last.node] # "NONE"
             => IF productionGuideRate(last.pre, last.node, FALSE) # 0
                THEN prodMode[last.node] = "FLD"
                ELSE State = last.pre)

\* the claim as stated: whatever the group's guide rate, the RATE response
\* leaves the mode at FLD
C28_AsStated ==
    /\ [](NoneRateViolation => ~last.ret /\ State = last.pre)
    /\ [][(NoneRateViolation /\ SameCallAgain)
             => (~last'.ret /\ ~last'.err /\ State' = State)]_vars
    /\ [](RateResponse /\ last.pre.prodMode[last.node] # "NONE"
             => prodMode[last.node] = "FLD")

\* the second of two calls on a group in mode NONE found its target exceeded
\* by flowing producers, as the first did
C28_Witness ==
    /\ NoneRateViolation /\ ~last.ret /\ steps >= 2
    /\ AggProdRate(last.node, last.R, FirstProdExceeded(last.node)) # 0
    /\ State = last.pre

\* the RATE response took a group from LRAT to FLD
C28_RateResponseLeavesFLD ==
    /\ RateResponse /\ last.pre.prodMode[last.node] = "LRAT"
    /\ FirstProdExceeded(last.node) = "ORAT"
    /\ prodMode[last.node] = "FLD"

\* a group without guide rate keeps its mode under the RATE response
C28_ZeroGuideRateKeepsMode ==
    /\ RateResponse /\ last.pre.prodMode[last.node] = "LRAT"
    /\ productionGuideRate(last.pre, last.node, FALSE) = 0
    /\ prodMode[last.node] = "LRAT"

(***************************************************************************)
(* C29: targets handed down with only_group = true and the wells under     *)
(* individual control                                                      *)
(***************************************************************************)
WellUntouched(w) ==
    /\ wells[w] = last.pre.wells[w]
    /\ indiv[w] = last.pre.indiv[w]
    /\ shouldUpdate[w] = last.pre.shouldUpdate[w]

\* a target was handed to a well under individual control, only_group = true
OnlyGroupOnIndividualWell ==
    /\ last.op \in {"applyProdGroupControl", "applyInjGroupControl"}
    /\ last.node \in Wells
    /\ last.only_group
    /\ last.pre.indiv[last.node]

\* applyInjGroupControls on a group in mode RATE or RESV, or
\* applyExplicitReinjectionControls
OnlyGroupControlsCall ==
    \/ /\ last.op = "applyInjGroupControls"
       /\ last.pre.injMode[last.node] \in {"RATE", "RESV"}
    \/ last.op = "applyExplicitReinjectionControls"

\* w stands below a child group of the called group that is in mode FLD and
\* has group-controlled injectors of nonzero guide rate: that group hands
\* the target on to all of its children with only_group = false
HandedOnBySubgroup(w) ==
    \E c \in SeqSet(children[last.node]) \cap Groups :
        /\ w \in WellSet(c)
        /\ last.pre.injMode[c] = "FLD"
        /\ injectionGuideRate(last.pre, c, TRUE) # 0

\* C29: a target handed down with only_group = true changes no well under
\* individual control: WellNode::applyProdGroupControl and
\* WellNode::applyInjGroupControl called with only_group = true on such a
\* well change nothing, and applyInjGroupControls (group mode RATE or RESV)
\* and applyExplicitReinjectionControls leave the controls, the current
\* control and the flags of every well under individual control as they were
C29_OnlyGroupLeavesIndividualWells ==
    /\ OnlyGroupOnIndividualWell => State = last.pre
    /\ OnlyGroupControlsCall =>
           \A w \in Wells : last.pre.indiv[w] => WellUntouched(w)

\* an injector under individual control was given a target, put under group
\* control and switched to it by a call that hands down only_group = true
C29_Witness ==
    /\ OnlyGroupControlsCall
    /\ ~last.err
    /\ \E w \in Wells :
          /\ last.pre.indiv[w] /\ HandedOnBySubgroup(w)
          /\ ~indiv[w]
          /\ wells[w].gci >= 0 /\ wells[w].current = wells[w].gci
          /\ last.pre.wells[w].gci < 0

\* what holds: the wells themselves return at once, and the two calls leave
\* every well under individual control alone that is not below such a
\* subgroup; nothing is installed on a tree whose wells are all under
\* individual control
C29_ExceptBelowFldSubgroup ==
    /\ OnlyGroupOnIndividualWell => State = last.pre /\ ~last.err
    /\ OnlyGroupControlsCall =>
           /\ \A w \in Wells :
                 last.pre.indiv[w] /\ ~HandedOnBySubgroup(w) => WellUntouched(w)
           /\ (\A w \in Wells : last.pre.indiv[w]) => State = last.pre

\* a RATE or RESV group gave its group-controlled injector a target and left
\* its individually controlled injector alone
C29_DirectChildrenKept ==
    /\ last.op = "applyInjGroupControls"
    /\ last.pre.injMode[last.node] \in {"RATE", "RESV"}
    /\ \E w, v \in WellSet(last.node) :
          /\ isInjector(w) /\ last.pre.indiv[w] /\ WellUntouched(w)
          /\ isInjector(v) /\ ~last.pre.indiv[v] /\ wells[v] # last.pre.wells[v]

\* a leaf call with only_group = true on an individually controlled injector
C29_LeafCall ==
    /\ OnlyGroupOnIndividualWell
    /\ last.op = "applyInjGroupControl"
    /\ isInjector(last.node)
    /\ steps >= 2
====
